---- MODULE Spec2Model ----
(***************************************************************************)
(* A model of DyNAThetaLinear (src/dyna/dyna_theta_linear.py): the layer's *)
(* learnable tensors, its constructor and its forward pass, with the       *)
(* tensor operations forward uses (broadcasting, permute, unsqueeze,       *)
(* reshape, sum, einsum, LayerNorm, linear) modelled on shaped tensors so  *)
(* that a shape mismatch raises exactly where the tensor library raises.   *)
(*                                                                         *)
(* Numbers.  Tensors hold integers.  Sums and products of small integers   *)
(* are exact in floating point, so every step but LayerNorm is computed    *)
(* exactly as the code computes it.  LayerNorm divides by a square root;   *)
(* its quotient is truncated toward zero to stay on the integer grid (see  *)
(* layer_norm).                                                            *)
(***************************************************************************)
EXTENDS Integers, Sequences, FiniteSets, TLC

\* ------------------------------------------------------------------ bounds
MaxDim == 2        \* in_features, out_features, theta_modes_in range over 1..MaxDim
MaxModesOut == 2   \* theta_modes_out ranges over 1..MaxModesOut
MaxBatch == 2      \* size of a leading batch axis
MaxCalls == 2      \* forward calls counted since the last parameter update
MaxUpdates == 1    \* optimizer updates applied to a layer

\* ------------------------------------------------------------ small helpers
RECURSIVE Prod(_)
Prod(s) == IF s = <<>> THEN 1 ELSE Head(s) * Prod(Tail(s))

RECURSIVE SumTo(_, _)
\* f[0] + ... + f[n-1]
SumTo(f, n) == IF n = 0 THEN 0 ELSE f[n - 1] + SumTo(f, n - 1)

RECURSIVE ISqrtFrom(_, _)
ISqrtFrom(n, r) == IF (r + 1) * (r + 1) > n THEN r ELSE ISqrtFrom(n, r + 1)

\* floor of the square root of n >= 0
ISqrt(n) == ISqrtFrom(n, 0)

Sign(v) == IF v > 0 THEN 1 ELSE IF v < 0 THEN -1 ELSE 0

Ones(n) == [d \in 1..n |-> 1]

\* ------------------------------------------------------------------ tensors
\* A tensor is a shape and its elements in row-major (contiguous) order.
\* RuntimeError is what an operation yields when the tensor library raises;
\* every operation passes it on, as the exception aborts the call.
RuntimeError == [ok |-> FALSE, shape |-> <<>>, data |-> <<>>]

Materialize(f) == f @@ <<>>

\* the flat offsets of the elements of a tensor of shape s
Offsets(s) == 0..(Prod(s) - 1)

\* the tensor of shape s whose element at flat offset k is f[k]
MkTensor(s, f) == [ok |-> TRUE, shape |-> s, data |-> Materialize(f)]

Rank(t) == Len(t.shape)

\* number of elements after axis d (1-based): the row-major stride of axis d
Stride(s, d) == Prod(SubSeq(s, d + 1, Len(s)))

\* coordinate along axis d of the element at flat offset k
Coord(s, k, d) == ((k \div Stride(s, d)) % s[d])

Unravel(s, k) == Materialize([d \in 1..Len(s) |-> Coord(s, k, d)])

RECURSIVE RavelFrom(_, _, _)
RavelFrom(s, idx, d) ==
    IF d > Len(s) THEN 0 ELSE idx[d] * Stride(s, d) + RavelFrom(s, idx, d + 1)

Ravel(s, idx) == RavelFrom(s, idx, 1)

At(t, idx) == t.data[Ravel(t.shape, idx)]

\* a Python axis number (negative counts from the end) as a 1-based axis
Axis(rank, dim) == IF dim < 0 THEN rank + dim + 1 ELSE dim + 1

\* ------------------------------------------------------------- broadcasting
\* Shapes are aligned on the right; two sizes are compatible when they are
\* equal or one of them is 1.
DimAt(s, rank, d) == LET off == rank - Len(s) IN IF d <= off THEN 1 ELSE s[d - off]

MaxOf(a, b) == IF a >= b THEN a ELSE b

SizesCompatible(a, b) == a = b \/ a = 1 \/ b = 1

Broadcastable(s1, s2) ==
    LET r == MaxOf(Len(s1), Len(s2))
    IN \A d \in 1..r : SizesCompatible(DimAt(s1, r, d), DimAt(s2, r, d))

BroadcastShape(s1, s2) ==
    LET r == MaxOf(Len(s1), Len(s2))
    IN [d \in 1..r |-> MaxOf(DimAt(s1, r, d), DimAt(s2, r, d))]

\* the element of t that index idx of a broadcast result of rank Len(idx) reads
AtBroadcast(t, idx) ==
    LET off == Len(idx) - Rank(t)
    IN At(t, Materialize([d \in 1..Rank(t) |-> IF t.shape[d] = 1 THEN 0 ELSE idx[d + off]]))

mul(a, b) ==
    IF ~a.ok \/ ~b.ok THEN RuntimeError
    ELSE IF ~Broadcastable(a.shape, b.shape) THEN RuntimeError
    ELSE LET s == BroadcastShape(a.shape, b.shape)
             prod(idx) == AtBroadcast(a, idx) * AtBroadcast(b, idx)
         IN MkTensor(s, [k \in Offsets(s) |-> prod(Unravel(s, k))])

add(a, b) ==
    IF ~a.ok \/ ~b.ok THEN RuntimeError
    ELSE IF ~Broadcastable(a.shape, b.shape) THEN RuntimeError
    ELSE LET s == BroadcastShape(a.shape, b.shape)
             plus(idx) == AtBroadcast(a, idx) + AtBroadcast(b, idx)
         IN MkTensor(s, [k \in Offsets(s) |-> plus(Unravel(s, k))])

\* ---------------------------------------------------------- shape operations
\* permute read the wrong way round: axis d of the input sent to axis dims[d]
permute_scatter(t, dims) ==
    IF ~t.ok THEN RuntimeError
    ELSE IF Len(dims) # Rank(t) THEN RuntimeError
    ELSE LET r == Rank(t)
             dst == [d \in 1..r |-> Axis(r, dims[d])]
             s == [e \in 1..r |-> t.shape[CHOOSE d \in 1..r : dst[d] = e]]
         IN [ok |-> TRUE, shape |-> s,
             data |-> [k \in 0..(Prod(s) - 1) |->
                          t.data[Ravel(t.shape, [d \in 1..r |-> Unravel(s, k)[dst[d]]])]]]

\* Tensor.permute(dims): axis d of the result is axis dims[d] of the input
permute(t, dims) ==
    IF ~t.ok THEN RuntimeError
    ELSE IF Len(dims) # Rank(t) THEN RuntimeError
    ELSE LET r == Rank(t)
             src == [d \in 1..r |-> Axis(r, dims[d])]
         IN IF \E d \in 1..r : src[d] < 1 \/ src[d] > r THEN RuntimeError
            ELSE IF Cardinality({src[d] : d \in 1..r}) # r THEN RuntimeError
            ELSE LET s == [d \in 1..r |-> t.shape[src[d]]]
                     from(idx) == Materialize([e \in 1..r |-> idx[CHOOSE d \in 1..r : src[d] = e]])
                 IN MkTensor(s, [k \in Offsets(s) |-> At(t, from(Unravel(s, k)))])

\* Tensor.unsqueeze(dim): a size-1 axis inserted at dim (of the result)
unsqueeze(t, dim) ==
    IF ~t.ok THEN RuntimeError
    ELSE LET r == Rank(t) + 1
             p == Axis(r, dim)
         IN IF p < 1 \/ p > r THEN RuntimeError
            ELSE [ok |-> TRUE,
                  shape |-> [d \in 1..r |-> IF d < p THEN t.shape[d]
                                            ELSE IF d = p THEN 1 ELSE t.shape[d - 1]],
                  data |-> t.data]

\* the squeeze left out: the size-1 axis stays
squeeze_omitted(t) == t

\* Tensor.squeeze(-1): the last axis removed when its size is 1, else unchanged
squeeze_last(t) ==
    IF ~t.ok THEN RuntimeError
    ELSE IF Rank(t) = 0 THEN t
    ELSE IF t.shape[Rank(t)] # 1 THEN t
    ELSE [ok |-> TRUE, shape |-> SubSeq(t.shape, 1, Rank(t) - 1), data |-> t.data]

\* Tensor.reshape(shape): the same elements in the same row-major order; one
\* size may be -1 and is inferred from the number of elements
reshape(t, shape) ==
    IF ~t.ok THEN RuntimeError
    ELSE LET holes == {d \in 1..Len(shape) : shape[d] = -1}
             known == Prod([d \in 1..Len(shape) |-> IF shape[d] = -1 THEN 1 ELSE shape[d]])
             n == Prod(t.shape)
         IN IF Cardinality(holes) > 1 THEN RuntimeError
            ELSE IF holes = {} THEN
                 IF known # n THEN RuntimeError
                 ELSE [ok |-> TRUE, shape |-> shape, data |-> t.data]
            ELSE IF known = 0 \/ n % known # 0 THEN RuntimeError
            ELSE [ok |-> TRUE,
                  shape |-> [d \in 1..Len(shape) |->
                                IF shape[d] = -1 THEN n \div known ELSE shape[d]],
                  data |-> t.data]

\* torch.sum(t, dim=dim): axis dim summed away
sum(t, dim) ==
    IF ~t.ok THEN RuntimeError
    ELSE LET r == Rank(t)
             p == Axis(r, dim)
         IN IF p < 1 \/ p > r THEN RuntimeError
            ELSE LET s == [d \in 1..(r - 1) |-> IF d < p THEN t.shape[d] ELSE t.shape[d + 1]]
                     full(idx, j) ==
                         Materialize([d \in 1..r |-> IF d < p THEN idx[d]
                                                     ELSE IF d = p THEN j ELSE idx[d - 1]])
                 IN MkTensor(s, [k \in Offsets(s) |->
                        SumTo([j \in 0..(t.shape[p] - 1) |-> At(t, full(Unravel(s, k), j))],
                              t.shape[p])])

\* ------------------------------------------------------------------- einsum
\* A subscript shared by two operands must have equal sizes or size 1 in one
\* of them (forward relies on this for the emission tensor when
\* theta_feautures = 1); a summed subscript ranges over the larger size.

\* the contraction reading slice 0 of b for every i
einsum_ij_ijk_first(a, b) ==
    IF ~a.ok \/ ~b.ok THEN RuntimeError
    ELSE IF Rank(a) < 2 \/ Rank(b) # 3 THEN RuntimeError
    ELSE LET r == Rank(a)
             ai == a.shape[r - 1]
             aj == a.shape[r]
         IN IF ~SizesCompatible(ai, b.shape[1]) \/ ~SizesCompatible(aj, b.shape[2])
            THEN RuntimeError
            ELSE LET ni == MaxOf(ai, b.shape[1])
                     nj == MaxOf(aj, b.shape[2])
                     s == SubSeq(a.shape, 1, r - 2) \o <<ni, b.shape[3]>>
                     term(idx, j) ==
                         At(a, Materialize([d \in 1..r |->
                                   IF d < r - 1 THEN idx[d]
                                   ELSE IF d = r - 1 THEN (IF ai = 1 THEN 0 ELSE idx[r - 1])
                                   ELSE (IF aj = 1 THEN 0 ELSE j)]))
                         * At(b, <<0, IF b.shape[2] = 1 THEN 0 ELSE j, idx[r]>>)
                 IN MkTensor(s, [k \in Offsets(s) |->
                        SumTo([j \in 0..(nj - 1) |-> term(Unravel(s, k), j)], nj)])

\* torch.einsum("...ij,ijk -> ...ik", a, b)
einsum_ij_ijk(a, b) ==
    IF ~a.ok \/ ~b.ok THEN RuntimeError
    ELSE IF Rank(a) < 2 \/ Rank(b) # 3 THEN RuntimeError
    ELSE LET r == Rank(a)
             ai == a.shape[r - 1]
             aj == a.shape[r]
         IN IF ~SizesCompatible(ai, b.shape[1]) \/ ~SizesCompatible(aj, b.shape[2])
            THEN RuntimeError
            ELSE LET ni == MaxOf(ai, b.shape[1])
                     nj == MaxOf(aj, b.shape[2])
                     s == SubSeq(a.shape, 1, r - 2) \o <<ni, b.shape[3]>>
                     term(idx, j) ==
                         At(a, Materialize([d \in 1..r |->
                                   IF d < r - 1 THEN idx[d]
                                   ELSE IF d = r - 1 THEN (IF ai = 1 THEN 0 ELSE idx[r - 1])
                                   ELSE (IF aj = 1 THEN 0 ELSE j)]))
                         * At(b, <<IF b.shape[1] = 1 THEN 0 ELSE idx[r - 1],
                                   IF b.shape[2] = 1 THEN 0 ELSE j,
                                   idx[r]>>)
                 IN MkTensor(s, [k \in Offsets(s) |->
                        SumTo([j \in 0..(nj - 1) |-> term(Unravel(s, k), j)], nj)])

\* the scale left out of the product
einsum_ij_ij_unscaled(a, b) ==
    IF ~a.ok \/ ~b.ok THEN RuntimeError
    ELSE IF Rank(a) < 2 \/ Rank(b) # 2 THEN RuntimeError
    ELSE IF ~Broadcastable(a.shape, b.shape) THEN RuntimeError
    ELSE a

\* torch.einsum("...ij,ij -> ...ij", a, b)
einsum_ij_ij(a, b) ==
    IF ~a.ok \/ ~b.ok THEN RuntimeError
    ELSE IF Rank(a) < 2 \/ Rank(b) # 2 THEN RuntimeError
    ELSE mul(a, b)

\* ---------------------------------------------------------------- nn modules
\* nn.Identity()
Identity == [kind |-> "Identity"]

\* nn.LayerNorm(normalized_shape): elementwise affine, weight ones, bias zeros
LayerNorm(normalized_shape) ==
    [kind |-> "LayerNorm",
     normalized_shape |-> normalized_shape,
     weight |-> MkTensor(normalized_shape, [k \in Offsets(normalized_shape) |-> 1]),
     bias |-> MkTensor(normalized_shape, [k \in Offsets(normalized_shape) |-> 0])]

\* LayerNorm without its additive bias
layer_norm_no_bias(t, m) ==
    IF ~t.ok THEN RuntimeError
    ELSE IF Rank(t) < 2 THEN RuntimeError
    ELSE IF SubSeq(t.shape, Rank(t) - 1, Rank(t)) # m.normalized_shape THEN RuntimeError
    ELSE LET n == Prod(m.normalized_shape)
             slabs == Prod(t.shape) \div n
             total == [b \in 0..(slabs - 1) |->
                          SumTo([j \in 0..(n - 1) |-> t.data[b * n + j]], n)]
             c == [k \in 0..(Prod(t.shape) - 1) |-> n * t.data[k] - total[k \div n]]
             Q == [b \in 0..(slabs - 1) |->
                      SumTo([j \in 0..(n - 1) |-> c[b * n + j] * c[b * n + j]], n)]
             normalized(k) ==
                 IF Q[k \div n] = 0 THEN 0
                 ELSE Sign(c[k]) * ISqrt((n * c[k] * c[k]) \div Q[k \div n])
         IN MkTensor(t.shape, [k \in Offsets(t.shape) |-> normalized(k) * m.weight.data[k % n]])

\* LayerNorm.forward over the trailing two axes.  With n elements v_j in a
\* slab, c_j = n*v_j - sum(v) and Q = sum(c_j^2), the normalised value
\* (v_j - mean) / sqrt(var + eps) is sign(c_j) * sqrt(n * c_j^2 / Q) up to
\* eps; it is 0 for a constant slab (Q = 0, where only eps keeps the
\* quotient defined).  The square root is truncated to the integer grid.
layer_norm(t, m) ==
    IF ~t.ok THEN RuntimeError
    ELSE IF Rank(t) < 2 THEN RuntimeError
    ELSE IF SubSeq(t.shape, Rank(t) - 1, Rank(t)) # m.normalized_shape THEN RuntimeError
    ELSE LET n == Prod(m.normalized_shape)
             slabs == Prod(t.shape) \div n
             total == [b \in 0..(slabs - 1) |->
                          SumTo([j \in 0..(n - 1) |-> t.data[b * n + j]], n)]
             c == [k \in 0..(Prod(t.shape) - 1) |-> n * t.data[k] - total[k \div n]]
             Q == [b \in 0..(slabs - 1) |->
                      SumTo([j \in 0..(n - 1) |-> c[b * n + j] * c[b * n + j]], n)]
             normalized(k) ==
                 IF Q[k \div n] = 0 THEN 0
                 ELSE Sign(c[k]) * ISqrt((n * c[k] * c[k]) \div Q[k \div n])
         IN MkTensor(t.shape, [k \in Offsets(t.shape) |->
                normalized(k) * m.weight.data[k % n] + m.bias.data[k % n]])

\* the flag ignored: the step normalises also when it was built as nn.Identity
apply_norm_always(m, t) ==
    IF m.kind = "Identity"
    THEN IF ~t.ok \/ Rank(t) < 2 THEN RuntimeError
         ELSE layer_norm(t, LayerNorm(SubSeq(t.shape, Rank(t) - 1, Rank(t))))
    ELSE layer_norm(t, m)

\* calling a normalisation module
apply_norm(m, t) == IF m.kind = "Identity" THEN t ELSE layer_norm(t, m)

\* the projection reading the first in_features elements of a longer row
\* instead of raising
linear_truncating(input, weight, bias) ==
    IF ~input.ok THEN RuntimeError
    ELSE IF Rank(input) < 1 THEN RuntimeError
    ELSE IF input.shape[Rank(input)] < weight.shape[2] THEN RuntimeError
    ELSE LET r == Rank(input)
             nin == weight.shape[2]
             len == input.shape[r]
             s == SubSeq(input.shape, 1, r - 1) \o <<weight.shape[1]>>
         IN MkTensor(s, [k \in Offsets(s) |->
                SumTo([i \in 0..(nin - 1) |->
                          input.data[(k \div weight.shape[1]) * len + i]
                              * weight.data[(k % weight.shape[1]) * nin + i]], nin)
                + bias.data[k % weight.shape[1]]])

\* the projection without its bias
linear_no_bias(input, weight, bias) ==
    IF ~input.ok THEN RuntimeError
    ELSE IF Rank(input) < 1 THEN RuntimeError
    ELSE IF input.shape[Rank(input)] # weight.shape[2] THEN RuntimeError
    ELSE LET r == Rank(input)
             nin == weight.shape[2]
             s == SubSeq(input.shape, 1, r - 1) \o <<weight.shape[1]>>
         IN MkTensor(s, [k \in Offsets(s) |->
                SumTo([i \in 0..(nin - 1) |->
                          input.data[(k \div weight.shape[1]) * nin + i]
                              * weight.data[(k % weight.shape[1]) * nin + i]], nin)])

\* nn.Linear.forward: input [..., in] against weight [out, in], plus bias [out]
linear(input, weight, bias) ==
    IF ~input.ok THEN RuntimeError
    ELSE IF Rank(input) < 1 THEN RuntimeError
    ELSE IF input.shape[Rank(input)] # weight.shape[2] THEN RuntimeError
    ELSE LET r == Rank(input)
             nin == weight.shape[2]
             s == SubSeq(input.shape, 1, r - 1) \o <<weight.shape[1]>>
             row(k) == k \div weight.shape[1]
             o(k) == k % weight.shape[1]
         IN MkTensor(s, [k \in Offsets(s) |->
                SumTo([i \in 0..(nin - 1) |->
                          input.data[row(k) * nin + i] * weight.data[o(k) * nin + i]], nin)
                + bias.data[o(k)]])

\* ------------------------------------------------------------ random draws
\* A draw of the random number generator, as a function of the draw's place
\* (salt: which tensor, of which layer version; k: which element): a value
\* of the integer grid in lo..hi.
Draw(salt, k, lo, hi) ==
    lo + (((salt * 31 + k * 17 + (((k + 1) * (k + 2) * (salt + 3)) % 7) + 5) % 97) % (hi - lo + 1))

\* the largest grid value v with v*v <= num/den: the grid's share of the
\* interval [-sqrt(num/den), +sqrt(num/den)]
GridBound(num, den) == ISqrt(num \div den)

VARIABLES
    layer,       \* the DyNAThetaLinear instance: its configuration and tensors
    twin,        \* a second instance with the same parameter values, never called
    x,           \* the caller's input tensor
    components,  \* the caller's components tensor
    result,      \* what the last forward call returned (or that it raised)
    pc,          \* the caller: "idle", "ready" (inputs supplied), "returned"
    served,      \* forward calls served since the layer's last update
    updates,     \* optimizer updates applied to the layer
    heap,        \* tensor objects by identity: the storage behind each reference
    instances,   \* two DyNAThetaLinear objects whose attributes reference heap tensors
    workers,     \* one caller per instance: its position inside forward, its locals
    args,        \* train(): the arguments of the call
    model,       \* the DecoderOnlyModel: its named parameters and their requires_grad
    at,          \* the training script's position: "main", "loop", "done", "raised"
    step_idx,    \* train(): the loop counter (steps completed so far)
    accumulation_step,     \* train(): steps since the last optimizer step
    loss_accumulator,      \* train(): the accumulated loss (0 or a tensor)
    epoch_ids,             \* train(): sample ids not yet drawn in this epoch
    epoch_idx,             \* train(): the epoch counter
    epoch_frozen,          \* train(): epoch_frozen_ctx / _latents / _model
    frozen_last_epoch_id,  \* train(): frozen_ctx_last_epoch_id / _latents / _model
    batch_ids,   \* train(): the ids of the batch handed to the model
    optimizer,   \* the optimizer: step() calls so far and what the last backward() saw
    observed,    \* what an observer of the run has seen (history, not program state)
    evaluation   \* the last eval_* call: which, how it ended, the parameters before it

vars == <<layer, twin, x, components, result, pc, served, updates, heap, instances, workers, args, model, at, step_idx, accumulation_step, loss_accumulator, epoch_ids, epoch_idx, epoch_frozen, frozen_last_epoch_id, batch_ids, optimizer, observed, evaluation>>

\* the state of the training script
script == <<args, model, at, step_idx, accumulation_step, loss_accumulator, epoch_ids, epoch_idx, epoch_frozen, frozen_last_epoch_id, batch_ids, optimizer, observed, evaluation>>

\* Python's None, and a value that is not None
None == <<>>
Some(v) == <<v>>

\* the training script is not running
NoScript ==
    /\ args = None /\ model = None /\ at = "off"
    /\ step_idx = 0 /\ accumulation_step = 0 /\ loss_accumulator = None
    /\ epoch_ids = <<>> /\ epoch_idx = 0
    /\ epoch_frozen = None /\ frozen_last_epoch_id = None
    /\ batch_ids = <<>> /\ optimizer = None /\ observed = None /\ evaluation = None

\* the state of the two-instance program
pair == <<heap, instances, workers>>

\* the state of the one-instance program
solo == <<layer, twin, x, components, result, pc, served, updates>>

\* --------------------------------------------------------------- DyNAThetaLinear
\* the environment initializer with the quotient of its bound inverted
initializer_env_inverted(shape, theta_modes_in, in_features, salt) ==
    LET bound == (in_features + theta_modes_in - 1) \div theta_modes_in
    IN MkTensor(shape, [k \in Offsets(shape) |-> Draw(salt, k, -bound, bound)])

\* nn.init.uniform_(x, a=-bound, b=+bound), bound = theta_modes_in / in_features
initializer_env(shape, theta_modes_in, in_features, salt) ==
    LET bound == theta_modes_in \div in_features
    IN MkTensor(shape, [k \in Offsets(shape) |-> Draw(salt, k, -bound, bound)])

\* nn.init.normal_(x, mean=0.0, std=sqrt(1 / theta_modes_in))
initializer_perception(shape, theta_modes_in, salt) ==
    MkTensor(shape, [k \in Offsets(shape) |-> Draw(salt, k, -1, 1)])

\* nn.init.normal_(x, mean=0.0, std=1.0)
initializer_individual(shape, salt) ==
    MkTensor(shape, [k \in Offsets(shape) |-> Draw(salt, k, -1, 1)])

\* the emission tensor allocated with one shared slice whatever was asked for
initializer_emission_shared(shape, salt) ==
    LET shared == <<1>> \o Tail(shape)
        fan == shared[2] * Prod(SubSeq(shared, 3, Len(shared)))
        bound == GridBound(3, fan)
    IN MkTensor(shared, [k \in Offsets(shared) |-> Draw(salt, k, -bound, bound)])

\* x.uniform_(-bound, bound), bound = sqrt(3 / fan_in); fan_in of a tensor of
\* rank > 2 is size(1) times the product of the sizes after it
initializer_emission(shape, salt) ==
    LET fan == shape[2] * Prod(SubSeq(shape, 3, Len(shape)))
        bound == GridBound(3, fan)
    IN MkTensor(shape, [k \in Offsets(shape) |-> Draw(salt, k, -bound, bound)])

\* nn.Linear.reset_parameters: weight and bias uniform in +-1/sqrt(in_features)
initializer_linear(shape, in_features, salt) ==
    LET bound == GridBound(1, in_features)
    IN MkTensor(shape, [k \in Offsets(shape) |-> Draw(salt, k, -bound, bound)])

\* torch.ones(shape) left uninitialised: torch.empty(shape), here all zeros
torch_ones_empty(shape) == MkTensor(shape, [k \in Offsets(shape) |-> 0])

\* torch.ones(shape)
torch_ones(shape) == MkTensor(shape, [k \in Offsets(shape) |-> 1])

\* torch.zeros(shape)
torch_zeros(shape) == MkTensor(shape, [k \in Offsets(shape) |-> 0])

\* DyNAThetaLinear.__init__ (the initializers are the methods _initializer_*)
DyNAThetaLinear(in_features, out_features, theta_modes_in, theta_modes_out, theta_full_features, theta_normalize_env_input, theta_normalize_env_output) ==
    LET theta_quad_out == theta_modes_out * 4
        theta_feautures == IF theta_full_features THEN out_features ELSE 1
    IN [in_features |-> in_features,
        out_features |-> out_features,
        theta_modes_in |-> theta_modes_in,
        theta_modes_out |-> theta_modes_out,
        theta_quad_out |-> theta_quad_out,
        theta_feautures |-> theta_feautures,
        theta_normalize_env_input |-> theta_normalize_env_input,
        theta_normalize_env_output |-> theta_normalize_env_output,
        weight |-> initializer_linear(<<out_features, in_features>>, in_features, 7),
        bias |-> initializer_linear(<<out_features>>, in_features, 8),
        individual_sensetivity |->
            initializer_individual(<<out_features, in_features, 1>>, 1),
        env_sensetivity |->
            initializer_env(<<in_features, theta_modes_in>>, theta_modes_in, in_features, 2),
        env_bias |->
            initializer_env(<<in_features, theta_modes_in>>, theta_modes_in, in_features, 3),
        norm_env_input |->
            IF theta_normalize_env_input
            THEN LayerNorm(<<in_features, theta_modes_in>>) ELSE Identity,
        norm_env_output |->
            IF theta_normalize_env_output
            THEN LayerNorm(<<out_features, theta_modes_in>>) ELSE Identity,
        perception |-> initializer_perception(<<in_features, theta_modes_in, 1>>,
                                               theta_modes_in, 4),
        perceptual_bias |-> initializer_perception(<<in_features>>, theta_modes_in, 5),
        emission |->
            initializer_emission(<<theta_feautures, theta_modes_in, theta_quad_out>>, 6),
        emission_scale |-> torch_ones(<<out_features, theta_quad_out>>),
        emission_bias |-> torch_zeros(<<out_features, theta_quad_out>>)]

\* the locals of a forward call that raised: nothing is returned
Raised ==
    [raised |-> TRUE,
     transformed_x |-> RuntimeError, param_quads |-> RuntimeError,
     cumulative_env_inputs |-> RuntimeError, env_biased |-> RuntimeError,
     env_normalized |-> RuntimeError, perceptual_x |-> RuntimeError,
     cumulative_env_outputs |-> RuntimeError, gated |-> RuntimeError,
     modulated_env |-> RuntimeError, emission_raw |-> RuntimeError]

\* The locals of a forward call before its first statement: nothing is bound.
Locals0 ==
    [components_per_input |-> RuntimeError, individual_sensetivity |-> RuntimeError,
     cumulative_env_inputs |-> RuntimeError, env_sensed |-> RuntimeError,
     env_biased |-> RuntimeError, env_normalized |-> RuntimeError,
     perceptual_x |-> RuntimeError, transformed_x |-> RuntimeError,
     cumulative_env_outputs |-> RuntimeError, gated |-> RuntimeError,
     modulated_env |-> RuntimeError, emission_raw |-> RuntimeError,
     emission_scaled |-> RuntimeError, emission_biased |-> RuntimeError,
     param_quads |-> RuntimeError]

\* The statements of forward, grouped into the ten steps of the algorithm.
\* Each takes the call's arguments and locals and returns the locals with
\* the names it assigns rebound.  (The code rebinds modulated_env at line
\* 218; its value between lines 217 and 218 is called gated here.)

\* lines 160-163: components [*B, M, I] -> [*B, 1, I, M]
step1(self, x_, components_, loc) ==
    LET batch_rank == Rank(components_) - 2
    IN [loc EXCEPT !.components_per_input =
           unsqueeze(permute(components_,
                             [d \in 1..(batch_rank + 2) |->
                                 IF d <= batch_rank THEN d - 1
                                 ELSE IF d = batch_rank + 1 THEN -1 ELSE -2]),
                     -3)]

\* lines 168-176
step2(self, x_, components_, loc) ==
    [loc EXCEPT !.individual_sensetivity =
        mul(reshape(self.individual_sensetivity,
                    Ones(Rank(components_) - 2) \o self.individual_sensetivity.shape),
            loc.components_per_input)]

\* step 3 summing over the input-neuron axis
step3_input_axis(self, x_, components_, loc) ==
    [loc EXCEPT !.cumulative_env_inputs = sum(loc.individual_sensetivity, -2)]

\* line 185
step3(self, x_, components_, loc) ==
    [loc EXCEPT !.cumulative_env_inputs = sum(loc.individual_sensetivity, -3)]

\* step 4 adding the bias before applying the gain
step4_bias_first(self, x_, components_, loc) ==
    LET extra_dims == Ones(Rank(components_) - 2)
        env_shifted ==
            add(loc.cumulative_env_inputs,
                reshape(self.env_bias, extra_dims \o self.env_bias.shape))
        env_biased ==
            mul(env_shifted,
                reshape(self.env_sensetivity, extra_dims \o self.env_sensetivity.shape))
    IN [loc EXCEPT !.env_sensed = env_shifted,
                   !.env_biased = env_biased,
                   !.env_normalized = apply_norm(self.norm_env_input, env_biased)]

\* lines 186-192 (extra_dims is line 159)
step4(self, x_, components_, loc) ==
    LET extra_dims == Ones(Rank(components_) - 2)
        env_sensed ==
            mul(loc.cumulative_env_inputs,
                reshape(self.env_sensetivity, extra_dims \o self.env_sensetivity.shape))
        env_biased ==
            add(env_sensed, reshape(self.env_bias, extra_dims \o self.env_bias.shape))
    IN [loc EXCEPT !.env_sensed = env_sensed,
                   !.env_biased = env_biased,
                   !.env_normalized = apply_norm(self.norm_env_input, env_biased)]

\* step 5 adding the bias before the multiplication by x
step5_bias_first(self, x_, components_, loc) ==
    LET contracted == squeeze_last(einsum_ij_ijk(loc.env_normalized, self.perception))
    IN [loc EXCEPT !.perceptual_x = mul(x_, add(contracted, self.perceptual_bias))]

\* lines 202-205
step5(self, x_, components_, loc) ==
    LET perceptual_x1 == mul(unsqueeze(x_, -1), loc.env_normalized)
        perceptual_x2 == einsum_ij_ijk(perceptual_x1, self.perception)
        perceptual_x3 == squeeze_last(perceptual_x2)
    IN [loc EXCEPT !.perceptual_x = add(perceptual_x3, self.perceptual_bias)]

\* step 6 with the emission bias leaking into the projection
step6_emission_leak(self, x_, components_, loc) ==
    [loc EXCEPT !.transformed_x =
        add(linear(loc.perceptual_x, self.weight, self.bias), sum(self.emission_bias, -1))]

\* line 206
step6(self, x_, components_, loc) ==
    [loc EXCEPT !.transformed_x = linear(loc.perceptual_x, self.weight, self.bias)]

\* step 7 fused with step 2: the weighted product is recomputed from step
\* 1's output instead of being read back
step7_recomputed(self, x_, components_, loc) ==
    [loc EXCEPT !.cumulative_env_outputs =
        sum(mul(reshape(self.individual_sensetivity,
                        Ones(Rank(components_) - 2) \o self.individual_sensetivity.shape),
                loc.components_per_input),
            -2)]

\* line 216
step7(self, x_, components_, loc) ==
    [loc EXCEPT !.cumulative_env_outputs = sum(loc.individual_sensetivity, -2)]

\* step 8 normalizing the environment before gating it
step8_norm_first(self, x_, components_, loc) ==
    LET gated == mul(apply_norm(self.norm_env_output, loc.cumulative_env_outputs),
                     unsqueeze(loc.transformed_x, -1))
    IN [loc EXCEPT !.gated = gated, !.modulated_env = gated]

\* lines 217-218
step8(self, x_, components_, loc) ==
    LET gated == mul(loc.cumulative_env_outputs, unsqueeze(loc.transformed_x, -1))
    IN [loc EXCEPT !.gated = gated,
                   !.modulated_env = apply_norm(self.norm_env_output, gated)]

\* step 9 contracting the first batch element's tensor for every element
step9_first_element(self, x_, components_, loc) ==
    LET t == loc.modulated_env
        n == IF t.ok /\ Rank(t) >= 2 THEN t.shape[Rank(t) - 1] * t.shape[Rank(t)] ELSE 1
        first == IF t.ok THEN MkTensor(t.shape, [k \in Offsets(t.shape) |-> t.data[k % n]])
                 ELSE t
    IN [loc EXCEPT !.emission_raw = einsum_ij_ijk(first, self.emission)]

\* lines 219-223
step9(self, x_, components_, loc) ==
    [loc EXCEPT !.emission_raw = einsum_ij_ijk(loc.modulated_env, self.emission)]

\* step 10 with the emission bias forgotten
step10_no_bias(self, x_, components_, loc) ==
    LET emission_scaled == einsum_ij_ij(loc.emission_raw, self.emission_scale)
        param_quads1 ==
            reshape(emission_scaled,
                    SubSeq(emission_scaled.shape, 1, Rank(emission_scaled) - 1)
                        \o <<self.theta_modes_out, -1>>)
    IN [loc EXCEPT !.emission_scaled = emission_scaled,
                   !.emission_biased = emission_scaled,
                   !.param_quads =
                       permute(param_quads1,
                               [d \in 1..Rank(param_quads1) |->
                                   IF d <= Rank(param_quads1) - 3 THEN d - 1
                                   ELSE IF d = Rank(param_quads1) - 2 THEN -2
                                   ELSE IF d = Rank(param_quads1) - 1 THEN -1 ELSE -3])]

\* lines 224-249
step10(self, x_, components_, loc) ==
    LET emission_scaled == einsum_ij_ij(loc.emission_raw, self.emission_scale)
        emission_biased ==
            add(emission_scaled,
                reshape(self.emission_bias,
                        Ones(Rank(emission_scaled) - 2) \o self.emission_bias.shape))
        param_quads1 ==
            reshape(emission_biased,
                    SubSeq(emission_biased.shape, 1, Rank(emission_biased) - 1)
                        \o <<self.theta_modes_out, -1>>)
    IN [loc EXCEPT !.emission_scaled = emission_scaled,
                   !.emission_biased = emission_biased,
                   !.param_quads =
                       permute(param_quads1,
                               [d \in 1..Rank(param_quads1) |->
                                   IF d <= Rank(param_quads1) - 3 THEN d - 1
                                   ELSE IF d = Rank(param_quads1) - 2 THEN -2
                                   ELSE IF d = Rank(param_quads1) - 1 THEN -1 ELSE -3])]

Steps == 1..10

\* the k-th step of forward
Step(k, self, x_, components_, loc) ==
    CASE k = 1 -> step1(self, x_, components_, loc)
      [] k = 2 -> step2(self, x_, components_, loc)
      [] k = 3 -> step3(self, x_, components_, loc)
      [] k = 4 -> step4(self, x_, components_, loc)
      [] k = 5 -> step5(self, x_, components_, loc)
      [] k = 6 -> step6(self, x_, components_, loc)
      [] k = 7 -> step7(self, x_, components_, loc)
      [] k = 8 -> step8(self, x_, components_, loc)
      [] k = 9 -> step9(self, x_, components_, loc)
      [] k = 10 -> step10(self, x_, components_, loc)

RECURSIVE Run(_, _, _, _, _, _)
\* the locals after steps from..to, in program order, starting from loc
Run(from, to, self, x_, components_, loc) ==
    IF from > to THEN loc
    ELSE Run(from + 1, to, self, x_, components_, Step(from, self, x_, components_, loc))

\* line 251: return transformed_x, param_quads (nothing when a statement
\* raised), with the call's intermediate tensors kept beside the pair
Returned(loc) ==
    IF ~loc.transformed_x.ok \/ ~loc.param_quads.ok THEN Raised
    ELSE [raised |-> FALSE,
          transformed_x |-> loc.transformed_x, param_quads |-> loc.param_quads,
          cumulative_env_inputs |-> loc.cumulative_env_inputs,
          env_biased |-> loc.env_biased,
          env_normalized |-> loc.env_normalized, perceptual_x |-> loc.perceptual_x,
          cumulative_env_outputs |-> loc.cumulative_env_outputs, gated |-> loc.gated,
          modulated_env |-> loc.modulated_env, emission_raw |-> loc.emission_raw]

\* DyNAThetaLinear.forward
forward(self, x_, components_) == Returned(Run(1, 10, self, x_, components_, Locals0))

\* ------------------------------------------------------------- the optimizer
\* One optimizer step moves every learnable tensor (the layer's registered
\* nn.Parameters and those of its LayerNorm modules) to new values; salt
\* names the step.  The optimizer is free to reach any values: the draws are
\* grid values in -1..1, and a step may leave individual_sensetivity at zero.
Redrawn(t, salt) == MkTensor(t.shape, [k \in Offsets(t.shape) |-> Draw(salt, k, -1, 1)])

StepNorm(m, salt) ==
    IF m.kind = "Identity" THEN m
    ELSE [m EXCEPT !.weight = Redrawn(@, salt), !.bias = Redrawn(@, salt + 1)]

UpdateKinds == {"step", "zero_sensitivity"}

Stepped(self, n, kind) ==
    LET salt == 20 * n + (IF kind = "step" THEN 0 ELSE 10)
    IN [self EXCEPT
           !.weight = Redrawn(@, salt + 7),
           !.bias = Redrawn(@, salt + 8),
           !.individual_sensetivity =
               IF kind = "zero_sensitivity" THEN MkTensor(@.shape, [k \in Offsets(@.shape) |-> 0])
               ELSE Redrawn(@, salt + 1),
           !.env_sensetivity = Redrawn(@, salt + 2),
           !.env_bias = Redrawn(@, salt + 3),
           !.norm_env_input = StepNorm(@, salt + 11),
           !.norm_env_output = StepNorm(@, salt + 13),
           !.perception = Redrawn(@, salt + 4),
           !.perceptual_bias = Redrawn(@, salt + 5),
           !.emission = Redrawn(@, salt + 6),
           !.emission_scale = Redrawn(@, salt + 9),
           !.emission_bias = Redrawn(@, salt + 15)]

\* ------------------------------------------------------------ the state machine
Dims == 1..MaxDim

\* the leading batch axes a caller uses: none, one, or two
BatchShapes == {<<>>, <<MaxBatch>>, <<1, MaxBatch>>}

\* the returned value before any call
NoResult == [Raised EXCEPT !.raised = FALSE]

Init ==
    /\ \E I \in Dims, O \in Dims, M \in Dims, N \in 1..MaxModesOut,
          full \in BOOLEAN, norm_in \in BOOLEAN, norm_out \in BOOLEAN :
          layer = DyNAThetaLinear(I, O, M, N, full, norm_in, norm_out)
    /\ twin = layer
    /\ x = RuntimeError
    /\ components = RuntimeError
    /\ result = NoResult
    /\ pc = "idle"
    /\ served = 0
    /\ updates = 0
    /\ heap = <<>>
    /\ instances = <<>>
    /\ workers = <<>>
    /\ NoScript

\* The caller builds the inputs of its next call: x of shape [*B, in_features]
\* and components of shape [*B, C, D], conformant or not.
Supply(B, C, D) ==
    /\ x' = MkTensor(B \o <<layer.in_features>>,
                     [k \in Offsets(B \o <<layer.in_features>>) |-> Draw(21 + 14 * Len(B), k, -1, 1)])
    /\ components' = MkTensor(B \o <<C, D>>,
                              [k \in Offsets(B \o <<C, D>>) |-> Draw(43 + 2 * C + D, k, -1, 1)])
    /\ result' = NoResult
    /\ pc' = "ready"
    /\ UNCHANGED <<layer, twin, served, updates>>
    /\ UNCHANGED pair
    /\ UNCHANGED script

\* forward adding into the parameter: self.perceptual_bias.add_(perceptual_x)
\* in place of perceptual_x + self.perceptual_bias (the in-place sum raises
\* when the batch axes make the shapes differ)
ForwardInPlace ==
    /\ pc \in {"ready", "returned"}
    /\ served < MaxCalls
    /\ LET r == forward(layer, x, components)
           fits == ~r.raised /\ r.perceptual_x.shape = layer.perceptual_bias.shape
       IN /\ result' = IF fits THEN r ELSE Raised
          /\ layer' = IF fits THEN [layer EXCEPT !.perceptual_bias = r.perceptual_x]
                      ELSE layer
    /\ pc' = "returned"
    /\ served' = served + 1
    /\ UNCHANGED <<twin, x, components, updates>>
    /\ UNCHANGED pair
    /\ UNCHANGED script

\* layer.forward(x, components)
Forward ==
    /\ pc \in {"ready", "returned"}
    /\ served < MaxCalls
    /\ result' = forward(layer, x, components)
    /\ pc' = "returned"
    /\ served' = served + 1
    /\ UNCHANGED <<layer, twin, x, components, updates>>
    /\ UNCHANGED pair
    /\ UNCHANGED script

\* optimizer.step() between forward passes, applied alike to both instances
OptimizerStep(kind) ==
    /\ updates < MaxUpdates
    /\ layer' = Stepped(layer, updates + 1, kind)
    /\ twin' = layer'
    /\ updates' = updates + 1
    /\ served' = 0
    /\ result' = NoResult
    /\ pc' = IF pc = "idle" THEN "idle" ELSE "ready"
    /\ UNCHANGED <<x, components>>
    /\ UNCHANGED pair
    /\ UNCHANGED script

Next ==
    \/ \E B \in BatchShapes, C \in Dims, D \in Dims : Supply(B, C, D)
    \/ Forward
    \/ \E kind \in UpdateKinds : OptimizerStep(kind)

Spec == Init /\ [][Next]_vars

\* ------------------------------------------------- two instances, one heap
\* Tensor objects have identity: an attribute of a layer refers to a tensor,
\* and two attributes may refer to the same one.  The heap maps references
\* to the tensors' values; an instance holds references.

\* the attributes of a layer that are nn.Parameter tensors
ParamNames ==
    <<"weight", "bias", "individual_sensetivity", "env_sensetivity", "env_bias",
      "perception", "perceptual_bias", "emission", "emission_scale", "emission_bias">>

ParamSet == {ParamNames[j] : j \in DOMAIN ParamNames}

\* the attributes of a layer that are modules
NormNames == {"norm_env_input", "norm_env_output"}

ParamIndex(f) == CHOOSE j \in DOMAIN ParamNames : ParamNames[j] = f

\* the tensors a normalization module owns
NormTensors(m) == IF m.kind = "Identity" THEN <<>> ELSE <<m.weight, m.bias>>

\* the tensors made at class level: one object, whichever instance asks
ClassCell(h, j) == j

\* the reference of the j-th tensor object made on heap h: a new object
NewCell(h, j) == Len(h) + j

\* a normalization module with its tensors at the references after base
AllocateNorm(m, h, base) ==
    IF m.kind = "Identity" THEN m
    ELSE [m EXCEPT !.weight = NewCell(h, base + 1), !.bias = NewCell(h, base + 2)]

\* __init__ seen from the heap: every tensor the constructor makes is a new
\* object; the instance's attributes refer to them
Allocate(L, h) ==
    LET n == Len(ParamNames)
        from_in == NormTensors(L.norm_env_input)
        from_out == NormTensors(L.norm_env_output)
    IN [heap |-> h \o [j \in 1..n |-> L[ParamNames[j]]] \o from_in \o from_out,
        self |-> [f \in DOMAIN L |->
                     IF f \in ParamSet THEN NewCell(h, ParamIndex(f))
                     ELSE IF f = "norm_env_input" THEN AllocateNorm(L[f], h, n)
                     ELSE IF f = "norm_env_output"
                          THEN AllocateNorm(L[f], h, n + Len(from_in))
                     ELSE L[f]]]

DerefNorm(m, h) ==
    IF m.kind = "Identity" THEN m ELSE [m EXCEPT !.weight = h[@], !.bias = h[@]]

\* the instance as forward sees it: self.<attribute> read through the heap
Deref(self, h) ==
    [f \in DOMAIN self |->
        IF f \in ParamSet THEN h[self[f]]
        ELSE IF f \in NormNames THEN DerefNorm(self[f], h)
        ELSE self[f]]

\* the tensor objects an instance refers to
NormCells(m) == IF m.kind = "Identity" THEN {} ELSE {m.weight, m.bias}

Cells(self) ==
    {self[f] : f \in ParamSet} \cup NormCells(self.norm_env_input)
        \cup NormCells(self.norm_env_output)

\* the optimizer writing values L into the instance's tensors, in place
Store(self, L, h) ==
    [id \in DOMAIN h |->
        IF \E f \in ParamSet : self[f] = id
        THEN L[CHOOSE f \in ParamSet : self[f] = id]
        ELSE IF \E f \in NormNames : id \in NormCells(self[f])
        THEN LET f == CHOOSE g \in NormNames : id \in NormCells(self[g])
             IN IF self[f].weight = id THEN L[f].weight ELSE L[f].bias
        ELSE h[id]]

\* constructor arguments of the two instances: both normalizations on (the
\* default), emission shared or per output neuron
PairArgs == {<<1, MaxDim, MaxDim, 1, full, TRUE, TRUE>> : full \in BOOLEAN}

\* the leading batch axes the two callers use
PairBatchShapes == {<<>>, <<MaxBatch>>}

Construct(a) == DyNAThetaLinear(a[1], a[2], a[3], a[4], a[5], a[6], a[7])

\* a caller that has not called yet.  pc is 0 before the first call, inside a
\* call the step of forward it runs next, and 11 once the call has returned;
\* entry is the instance as it was when the call was entered; overlap
\* records that the other caller was inside forward during this call.
InCall(w) == w.pc \in Steps

HasReturned(w) == w.pc = 11

IdleWorker ==
    [pc |-> 0, x |-> RuntimeError, components |-> RuntimeError, entry |-> <<>>,
     loc |-> Locals0, result |-> NoResult, updates |-> 0, overlap |-> FALSE]

PairInit ==
    /\ \E a1 \in PairArgs, a2 \in PairArgs :
          LET first == Allocate(Construct(a1), <<>>)
              second == Allocate(Construct(a2), first.heap)
          IN /\ heap = second.heap
             /\ instances = <<first.self, second.self>>
    /\ workers = <<IdleWorker, IdleWorker>>
    /\ layer = <<>>
    /\ twin = <<>>
    /\ x = RuntimeError
    /\ components = RuntimeError
    /\ result = NoResult
    /\ pc = "idle"
    /\ served = 0
    /\ updates = 0
    /\ NoScript

\* caller i enters instances[i].forward(x, components) with conformant inputs
Enter(i, B) ==
    /\ ~InCall(workers[i])
    /\ LET self == Deref(instances[i], heap)
           sx == B \o <<self.in_features>>
           sc == B \o <<self.theta_modes_in, self.in_features>>
       IN workers' = [workers EXCEPT ![i] =
              [@ EXCEPT !.pc = 1,
                        !.x = MkTensor(sx, [k \in Offsets(sx) |-> Draw(21 + 14 * Len(B) + i, k, -1, 1)]),
                        !.components = MkTensor(sc, [k \in Offsets(sc) |-> Draw(43 + i, k, -1, 1)]),
                        !.entry = self,
                        !.loc = Locals0,
                        !.result = NoResult,
                        !.overlap = FALSE]]
    /\ UNCHANGED <<heap, instances>>
    /\ UNCHANGED solo
    /\ UNCHANGED script

\* caller i runs the next step of its call
Advance(i) ==
    /\ InCall(workers[i])
    /\ LET w == workers[i]
           loc == Step(w.pc, Deref(instances[i], heap), w.x, w.components, w.loc)
       IN workers' = [workers EXCEPT ![i] =
              [@ EXCEPT !.loc = loc,
                        !.pc = w.pc + 1,
                        !.result = IF w.pc = 10 THEN Returned(loc) ELSE @,
                        !.overlap = @ \/ InCall(workers[3 - i])]]
    /\ UNCHANGED <<heap, instances>>
    /\ UNCHANGED solo
    /\ UNCHANGED script

\* optimizer.step() on the parameters of instance i, between its passes
PairOptimizerStep(i) ==
    /\ ~InCall(workers[i])
    /\ workers[i].updates < MaxUpdates
    /\ heap' = Store(instances[i],
                     Stepped(Deref(instances[i], heap), 2 * i + workers[i].updates, "step"),
                     heap)
    /\ workers' = [workers EXCEPT ![i].updates = @ + 1]
    /\ UNCHANGED instances
    /\ UNCHANGED solo
    /\ UNCHANGED script

PairNext ==
    \E i \in 1..2 :
        \/ \E B \in PairBatchShapes : Enter(i, B)
        \/ Advance(i)
        \/ PairOptimizerStep(i)

PairSpec == PairInit /\ [][PairNext]_vars


\* ------------------------------------------------------------------ claims
\* the leading axes of t before its last n axes
Batch(t, n) == SubSeq(t.shape, 1, Rank(t) - n)

\* the call returned a pair (it did not raise)
ReturnedOk == pc = "returned" /\ ~result.raised

\* components has the documented shape [*B, theta_modes_in, in_features]
Conformant ==
    /\ components.ok
    /\ components.shape = Batch(x, 1) \o <<layer.theta_modes_in, layer.in_features>>

\* C1 as stated: a conformant call returns transformed_x of shape [*B, O] and
\* param_quads of shape [*B, N, 4, F] with F = theta_feautures (1 when
\* theta_full_features is False).
C1_Stated ==
    (pc = "returned" /\ Conformant) =>
        /\ ~result.raised
        /\ result.transformed_x.shape = Batch(x, 1) \o <<layer.out_features>>
        /\ result.param_quads.shape =
               Batch(x, 1) \o <<layer.theta_modes_out, 4, layer.theta_feautures>>

\* C1 amended: for every configuration, every batch shape (the empty one
\* included) and both values of theta_full_features, a conformant call
\* returns transformed_x of shape [*B, O] and param_quads of shape
\* [*B, N, 4, O]: the last axis is out_features also when theta_feautures = 1.
C1_Shapes ==
    (pc = "returned" /\ Conformant) =>
        /\ ~result.raised
        /\ result.transformed_x.shape = Batch(x, 1) \o <<layer.out_features>>
        /\ result.param_quads.shape =
               Batch(x, 1) \o <<layer.theta_modes_out, 4, layer.out_features>>

C1_Witness ==
    /\ ReturnedOk /\ Conformant
    /\ layer.theta_feautures = 1 /\ layer.out_features > 1
    /\ layer.theta_modes_out > 1
    /\ Rank(x) = 1

\* C2: param_quads is laid out features-last by a row-major split of the
\* emitted axis: param_quads[b, n, q, o] = emission_raw[b, o, 4n+q] *
\* emission_scale[o, 4n+q] + emission_bias[o, 4n+q], of shape [*B, N, 4, O].
C2_Layout ==
    ReturnedOk =>
        LET pq == result.param_quads
            r == Rank(pq)
            B == Batch(result.emission_raw, 2)
        IN /\ pq.shape = B \o <<layer.theta_modes_out, 4, layer.out_features>>
           /\ \A k \in 0..(Prod(pq.shape) - 1) :
                 LET idx == Unravel(pq.shape, k)
                     b == SubSeq(idx, 1, r - 3)
                     n == idx[r - 2]
                     q == idx[r - 1]
                     o == idx[r]
                 IN pq.data[k] =
                        At(result.emission_raw, b \o <<o, 4 * n + q>>)
                            * At(layer.emission_scale, <<o, 4 * n + q>>)
                        + At(layer.emission_bias, <<o, 4 * n + q>>)

C2_Witness ==
    /\ ReturnedOk
    /\ layer.theta_modes_out > 1 /\ layer.out_features > 1
    /\ Rank(x) > 1
    /\ \E k \in DOMAIN layer.emission_scale.data : layer.emission_scale.data[k] \notin {0, 1}
    /\ \E k \in DOMAIN layer.emission_bias.data : layer.emission_bias.data[k] # 0
    /\ \E k \in DOMAIN result.emission_raw.data : result.emission_raw.data[k] # 0

\* at least one of the trailing two axes of components differs from
\* (theta_modes_in, in_features)
Mismatched ==
    /\ components.ok
    /\ SubSeq(components.shape, Rank(components) - 1, Rank(components))
           # <<layer.theta_modes_in, layer.in_features>>

\* C3: every call whose components mismatch (theta_modes_in, in_features) in
\* its trailing two axes raises and returns nothing, a mismatching axis of
\* size 1 included, for both settings of each normalization flag.
C3_MismatchRaises == (pc = "returned" /\ Mismatched) => result.raised

\* individual_sensetivity is all-zero
ZeroSensitivity == \A k \in DOMAIN layer.individual_sensetivity.data :
                       layer.individual_sensetivity.data[k] = 0

\* sum over i of weight[o, i] * v[row, i], plus bias[o]: the projection of
\* row `row` of a tensor with rows of in_features elements
Projected(v, row, o) ==
    SumTo([i \in 0..(layer.in_features - 1) |->
              At(layer.weight, <<o, i>>) * v[row * layer.in_features + i]],
          layer.in_features)
    + layer.bias.data[o]

\* C4 as stated: with individual_sensetivity all-zero the perceptual signal
\* is perceptual_bias broadcast over the batch, independent of x, and
\* transformed_x = weight * perceptual_bias + bias.
C4_Stated ==
    (ReturnedOk /\ Conformant /\ ZeroSensitivity) =>
        /\ \A k \in DOMAIN result.perceptual_x.data :
              result.perceptual_x.data[k] = layer.perceptual_bias.data[k % layer.in_features]
        /\ \A k \in DOMAIN result.transformed_x.data :
              result.transformed_x.data[k] =
                  Projected([j \in 0..(layer.in_features - 1) |-> layer.perceptual_bias.data[j]],
                            0, k % layer.out_features)

\* C4 amended: with individual_sensetivity all-zero the environment handed to
\* the input-side normalization is env_bias alone, so for conformant inputs
\* perceptual_x[b, i] = x[b, i] * (sum over m of norm(env_bias)[i, m] *
\* perception[i, m, 0]) + perceptual_bias[i], where norm is the input-side
\* normalization (identity when disabled): it does not depend on components
\* but still depends on x; transformed_x = weight * perceptual_x + bias.
C4_ZeroSensitivitySignal ==
    (ReturnedOk /\ Conformant /\ ZeroSensitivity) =>
        LET env == apply_norm(layer.norm_env_input, layer.env_bias)
            gain(i) == SumTo([m \in 0..(layer.theta_modes_in - 1) |->
                                 At(env, <<i, m>>) * At(layer.perception, <<i, m, 0>>)],
                             layer.theta_modes_in)
        IN /\ result.perceptual_x.shape = x.shape
           /\ \A k \in DOMAIN result.perceptual_x.data :
                 result.perceptual_x.data[k] =
                     x.data[k] * gain(k % layer.in_features)
                     + layer.perceptual_bias.data[k % layer.in_features]
           /\ \A k \in DOMAIN result.transformed_x.data :
                 result.transformed_x.data[k] =
                     Projected(result.perceptual_x.data,
                               k \div layer.out_features, k % layer.out_features)

C4_Witness ==
    /\ ReturnedOk /\ Conformant /\ ZeroSensitivity
    /\ layer.theta_normalize_env_input
    /\ layer.in_features > 1 /\ layer.theta_modes_in > 1
    /\ \E k \in DOMAIN result.perceptual_x.data :
          result.perceptual_x.data[k] # layer.perceptual_bias.data[k % layer.in_features]

\* the emission slice output neuron o reads
EmissionRow(o) == IF layer.theta_feautures = 1 THEN 0 ELSE o

\* C5 as stated: with individual_sensetivity all-zero, param_quads[b, n, q, o]
\* = emission_bias[o, 4n+q] for every value of the other parameters, the
\* output-side normalization's weight and bias included.
C5_Stated ==
    (ReturnedOk /\ Conformant /\ ZeroSensitivity) =>
        LET pq == result.param_quads
        IN \A k \in DOMAIN pq.data :
              LET idx == Unravel(pq.shape, k)
                  r == Rank(pq)
              IN pq.data[k] = At(layer.emission_bias, <<idx[r], 4 * idx[r - 2] + idx[r - 1]>>)

\* C5 amended: with individual_sensetivity all-zero the gated tensor is zero
\* and the output-side normalization returns its own bias beta (zero when
\* the normalization is disabled), so param_quads[b, n, q, o] =
\* emission_bias[o, 4n+q] + emission_scale[o, 4n+q] * (sum over m of
\* beta[o, m] * emission[f(o), m, 4n+q]); it equals emission_bias when the
\* normalization is disabled or its bias is zero.
C5_ZeroSensitivityQuads ==
    (ReturnedOk /\ Conformant /\ ZeroSensitivity) =>
        LET pq == result.param_quads
            beta(o, m) == IF layer.norm_env_output.kind = "LayerNorm"
                          THEN At(layer.norm_env_output.bias, <<o, m>>) ELSE 0
        IN \A k \in DOMAIN pq.data :
              LET idx == Unravel(pq.shape, k)
                  r == Rank(pq)
                  o == idx[r]
                  e == 4 * idx[r - 2] + idx[r - 1]
              IN pq.data[k] =
                     At(layer.emission_bias, <<o, e>>)
                     + At(layer.emission_scale, <<o, e>>)
                         * SumTo([m \in 0..(layer.theta_modes_in - 1) |->
                                     beta(o, m) * At(layer.emission, <<EmissionRow(o), m, e>>)],
                                 layer.theta_modes_in)

C5_Witness ==
    /\ ReturnedOk /\ Conformant /\ ZeroSensitivity
    /\ layer.norm_env_output.kind = "LayerNorm"
    /\ \E k \in DOMAIN result.param_quads.data :
          LET idx == Unravel(result.param_quads.shape, k)
              r == Rank(result.param_quads)
          IN result.param_quads.data[k]
                 # At(layer.emission_bias, <<idx[r], 4 * idx[r - 2] + idx[r - 1]>>)

\* perturbations of the emission tensor: one entry raised (the first, the
\* last), or every entry raised
Perturbations ==
    LET s == layer.emission.shape
    IN {MkTensor(s, [k \in Offsets(s) |-> IF k = k0 THEN 1 ELSE 0]) : k0 \in {0, Prod(s) - 1}}
       \cup {MkTensor(s, [k \in Offsets(s) |-> 1])}

\* the same call on the layer with D added to its emission tensor
PerturbedCall(D) == forward([layer EXCEPT !.emission = add(@, D)], x, components)

\* the change of param_quads under perturbation D, by flat offset
QuadChange(D) ==
    LET after == PerturbedCall(D).param_quads
    IN Materialize([k \in DOMAIN result.param_quads.data |->
                       after.data[k] - result.param_quads.data[k]])

C7_ForwardWritesNothing ==
    [][(pc' = "returned") => (layer' = layer /\ x' = x /\ components' = components)]_vars

C7_Witness == pc = "returned" /\ served = MaxCalls /\ updates > 0

\* C8: forward is deterministic and history-independent: whatever calls the
\* layer served before, what it returns for (x, components) is what a layer
\* with equal parameter values that served no call returns for them.
C8_HistoryIndependent ==
    (pc = "returned") => (layer = twin /\ result = forward(twin, x, components))

C8_Witness ==
    /\ ReturnedOk /\ served > 1
    /\ \E k \in DOMAIN result.transformed_x.data : result.transformed_x.data[k] # 0
    /\ \E k \in DOMAIN result.param_quads.data : result.param_quads.data[k] # 0

\* the layer as __init__ builds it with the other value of a normalization
\* flag, holding the same parameter tensors
WithNormEnvInput(self, flag) ==
    [self EXCEPT !.theta_normalize_env_input = flag,
                 !.norm_env_input =
                     IF flag THEN LayerNorm(<<self.in_features, self.theta_modes_in>>)
                     ELSE Identity]

WithNormEnvOutput(self, flag) ==
    [self EXCEPT !.theta_normalize_env_output = flag,
                 !.norm_env_output =
                     IF flag THEN LayerNorm(<<self.out_features, self.theta_modes_in>>)
                     ELSE Identity]

\* C9: each normalization flag turns its own step into a pass-through and
\* leaves the other step alone: with theta_normalize_env_input False the
\* tensor multiplied with x is cumulative_env_inputs * env_sensetivity +
\* env_bias; with theta_normalize_env_output False the tensor contracted
\* with emission is cumulative_env_outputs * transformed_x; toggling the
\* output flag changes nothing up to and including the gate, and toggling
\* the input flag changes neither the tensor handed to the input step nor
\* what the output step does to the gate.
C9_NormFlags ==
    ReturnedOk =>
        /\ ~layer.theta_normalize_env_input =>
              LET t == result.env_normalized
              IN \A k \in DOMAIN t.data :
                    LET idx == Unravel(t.shape, k)
                    IN t.data[k] =
                           AtBroadcast(result.cumulative_env_inputs, idx)
                               * AtBroadcast(layer.env_sensetivity, idx)
                           + AtBroadcast(layer.env_bias, idx)
        /\ ~layer.theta_normalize_env_output =>
              LET t == result.modulated_env
              IN \A k \in DOMAIN t.data :
                    LET idx == Unravel(t.shape, k)
                    IN t.data[k] =
                           AtBroadcast(result.cumulative_env_outputs, idx)
                               * At(result.transformed_x, SubSeq(idx, 1, Rank(t) - 1))
        /\ Conformant =>
              LET other == forward(WithNormEnvOutput(layer, ~layer.theta_normalize_env_output),
                                   x, components)
              IN /\ ~other.raised
                 /\ other.env_normalized = result.env_normalized
                 /\ other.transformed_x = result.transformed_x
                 /\ other.gated = result.gated
        /\ Conformant =>
              LET other == forward(WithNormEnvInput(layer, ~layer.theta_normalize_env_input),
                                   x, components)
              IN /\ ~other.raised
                 /\ other.env_biased = result.env_biased
                 /\ other.cumulative_env_outputs = result.cumulative_env_outputs
                 /\ layer.theta_normalize_env_output
                        \/ \A k \in DOMAIN other.modulated_env.data :
                              other.modulated_env.data[k] = other.gated.data[k]

C9_Witness ==
    /\ ReturnedOk /\ Conformant
    /\ ~layer.theta_normalize_env_input /\ ~layer.theta_normalize_env_output
    /\ layer.in_features > 1 /\ layer.theta_modes_in > 1
    /\ forward(WithNormEnvInput(layer, TRUE), x, components).env_normalized
           # result.env_normalized
    /\ forward(WithNormEnvOutput(layer, TRUE), x, components).modulated_env
           # result.modulated_env

C11_Construction ==
    LET I == layer.in_features
        O == layer.out_features
        M == layer.theta_modes_in
        N == layer.theta_modes_out
        built(full) == DyNAThetaLinear(I, O, M, N, full, layer.theta_normalize_env_input,
                                       layer.theta_normalize_env_output)
    IN /\ layer.theta_feautures \in {1, O}
       /\ layer.emission.shape = <<layer.theta_feautures, M, 4 * N>>
       /\ layer.emission_scale.shape = <<O, 4 * N>>
       /\ layer.emission_bias.shape = <<O, 4 * N>>
       /\ \A full \in BOOLEAN :
             /\ built(full).theta_feautures = (IF full THEN O ELSE 1)
             /\ built(full).emission.shape = <<IF full THEN O ELSE 1, M, 4 * N>>
             /\ built(full).emission_scale.shape = <<O, 4 * N>>
             /\ built(full).emission_bias.shape = <<O, 4 * N>>
       /\ updates = 0 => layer = built(layer.theta_feautures = O)

C11_Witness ==
    /\ pc = "idle" /\ updates = 0
    /\ layer.out_features > 1 /\ layer.theta_feautures = layer.out_features
    /\ layer.theta_modes_in > 1 /\ layer.theta_modes_out > 1
    /\ layer.emission.shape # layer.emission_scale.shape

\* C12: two instances never share a tensor, and under every interleaving of
\* their forward calls (and of the other instance's optimizer updates) a
\* call reads only its own instance's tensors and writes none: during the call
\* the instance stays as it was on entry, no step of a call changes the
\* heap, and the call returns what forward returns for it alone.
C12_Isolated ==
    /\ [](/\ Cells(instances[1]) \cap Cells(instances[2]) = {}
          /\ \A i \in 1..2 :
                /\ InCall(workers[i]) => Deref(instances[i], heap) = workers[i].entry
                /\ HasReturned(workers[i]) =>
                      workers[i].result =
                          forward(workers[i].entry, workers[i].x, workers[i].components))
    /\ [][(\E i \in 1..2 : InCall(workers[i]) /\ workers'[i].pc # workers[i].pc)
             => (heap' = heap /\ instances' = instances)]_vars

C12_Witness ==
    /\ HasReturned(workers[1]) /\ workers[1].overlap /\ ~workers[1].result.raised
    /\ InCall(workers[2]) /\ workers[2].updates > 0
    /\ instances[1].theta_feautures = instances[2].theta_feautures
    /\ \E k \in DOMAIN workers[1].result.transformed_x.data :
          workers[1].result.transformed_x.data[k] # 0
    /\ \E k \in DOMAIN workers[1].result.param_quads.data :
          workers[1].result.param_quads.data[k] # 0

\* a draw without zeros: -1 or 1
NonZeroDraw(salt, k) == 2 * Draw(salt, k, 0, 1) - 1

\* inputs with no zero entry, conformant for the layer, with one batch axis:
\* one of mixed signs, one positive
ProbeInputs(self) ==
    LET sx == <<MaxBatch, self.in_features>>
        sc == <<MaxBatch, self.theta_modes_in, self.in_features>>
    IN {[x |-> MkTensor(sx, [k \in Offsets(sx) |-> NonZeroDraw(61, k)]),
         components |-> MkTensor(sc, [k \in Offsets(sc) |-> NonZeroDraw(62, k)])],
        [x |-> MkTensor(sx, [k \in Offsets(sx) |-> Draw(67, k, 1, 2)]),
         components |-> MkTensor(sc, [k \in Offsets(sc) |-> Draw(68, k, 1, 2)])]}

\* a tensor of the shape of t with no zero entry: entries in 1..2 for an
\* even salt, in {-2, -1, 1, 2} for an odd one
Positive(t, salt) ==
    MkTensor(t.shape,
             [k \in Offsets(t.shape) |->
                 IF salt % 2 = 0 THEN Draw(salt, k, 1, 2)
                 ELSE NonZeroDraw(salt, k) * Draw(salt + 1, k, 1, 2)])

PositiveNorm(m, salt) ==
    IF m.kind = "Identity" THEN m
    ELSE [m EXCEPT !.weight = Positive(@, salt), !.bias = Positive(@, salt + 2)]

\* parameter values in general position for the layer's configuration: no
\* entry is zero and no sum cancels
GenericPoint(self, salt) ==
    [self EXCEPT
        !.weight = Positive(@, salt + 14),
        !.bias = Positive(@, salt + 16),
        !.individual_sensetivity = Positive(@, salt + 2),
        !.env_sensetivity = Positive(@, salt + 4),
        !.env_bias = Positive(@, salt + 6),
        !.norm_env_input = PositiveNorm(@, salt + 22),
        !.norm_env_output = PositiveNorm(@, salt + 26),
        !.perception = Positive(@, salt + 8),
        !.perceptual_bias = Positive(@, salt + 10),
        !.emission = Positive(@, salt + 12),
        !.emission_scale = Positive(@, salt + 18),
        !.emission_bias = Positive(@, salt + 30)]

ProbePoints(self) == {GenericPoint(self, salt) : salt \in {100, 200, 300, 101, 201, 301}}

\* changes of a tensor of shape s: every entry raised by one, or one entry
\* (the first, the last) moved up or down
Bumps(s) ==
    {MkTensor(s, [k \in Offsets(s) |-> 1])}
        \cup {MkTensor(s, [k \in Offsets(s) |-> IF k = k0 THEN v ELSE 0])
                : k0 \in {0, Prod(s) - 1}, v \in {1, -3, 3}}

\* parameter P of the layer reaches an output: at some probe point, for some
\* probe input, changing P changes transformed_x or param_quads
Live(self, P) ==
    \E point \in ProbePoints(self), inp \in ProbeInputs(self) :
        LET before == forward(point, inp.x, inp.components)
        IN /\ ~before.raised
           /\ \E D \in Bumps(point[P].shape) :
                 LET after == forward([point EXCEPT ![P] = add(@, D)], inp.x, inp.components)
                 IN \/ after.transformed_x # before.transformed_x
                    \/ after.param_quads # before.param_quads

\* a freshly constructed layer, before any call
Fresh == pc = "idle" /\ updates = 0

\* C13 as stated: every one of the ten learnable parameters reaches an
\* output (no dead branch), in every configuration and for both values of
\* theta_full_features.
C13_Stated == Fresh => \A P \in ParamSet : Live(layer, P)

\* a normalization taken over a single element returns its own bias whatever
\* it is given: nothing upstream of it passes
InputCut(self) ==
    self.theta_normalize_env_input /\ self.in_features * self.theta_modes_in = 1

OutputCut(self) ==
    self.theta_normalize_env_output /\ self.out_features * self.theta_modes_in = 1

\* the parameters whose only paths to the outputs run through a cut
Cut(self) ==
    (IF InputCut(self) THEN {"env_sensetivity", "env_bias"} ELSE {})
        \cup (IF InputCut(self) /\ OutputCut(self) THEN {"individual_sensetivity"} ELSE {})

\* C13 amended: each of the ten learnable parameters reaches at least one
\* of the two outputs, for both values of theta_full_features, unless every
\* path from it runs through a normalization over a single element: with
\* theta_normalize_env_input and in_features = modes_in = 1, env_sensetivity
\* and env_bias reach no output, and individual_sensetivity reaches none
\* when in addition theta_normalize_env_output and out_features = 1.  No
\* other parameter is ever dead.
C13_LiveParameters ==
    Fresh => \A P \in ParamSet : Live(layer, P) <=> P \notin Cut(layer)

C13_Witness ==
    /\ Fresh
    /\ layer.theta_normalize_env_input /\ layer.theta_normalize_env_output
    /\ layer.in_features > 1 /\ layer.out_features > 1 /\ layer.theta_modes_in > 1
    /\ layer.theta_feautures = 1
    /\ \A P \in ParamSet : Live(layer, P)

\* C14: the emission contraction is a per-output weighted sum over modes
\* with explicit sharing: emission_raw[b, o, k] = sum over m of g[b, o, m] *
\* emission[f(o), m, k], where g is the gated tensor as step 8 hands it over
\* (modulated_env), f(o) = 0 for every o when theta_feautures = 1 and f(o) = o
\* when theta_feautures = out_features; in both cases emission_raw has an
\* output-neuron axis of size out_features.
C14_Emission ==
    (ReturnedOk /\ Conformant) =>
        LET raw == result.emission_raw
            r == Rank(raw)
        IN /\ raw.shape = Batch(x, 1) \o <<layer.out_features, 4 * layer.theta_modes_out>>
           /\ \A k \in DOMAIN raw.data :
                 LET idx == Unravel(raw.shape, k)
                     b == SubSeq(idx, 1, r - 2)
                     o == idx[r - 1]
                 IN raw.data[k] =
                        SumTo([m \in 0..(layer.theta_modes_in - 1) |->
                                  At(result.modulated_env, b \o <<o, m>>)
                                      * At(layer.emission, <<EmissionRow(o), m, idx[r]>>)],
                              layer.theta_modes_in)

C14_Witness ==
    /\ ReturnedOk /\ Conformant
    /\ layer.theta_feautures = layer.out_features /\ layer.out_features > 1
    /\ layer.theta_modes_in > 1 /\ layer.theta_normalize_env_output
    /\ \E m \in 0..(layer.theta_modes_in - 1), k \in 0..(4 * layer.theta_modes_out - 1) :
          At(layer.emission, <<0, m, k>>) # At(layer.emission, <<1, m, k>>)
    /\ \E k \in DOMAIN result.emission_raw.data : result.emission_raw.data[k] # 0

\* individual_sensetivity[o, i, 0] * components[b, m, i]: the weighted
\* component of step 2 for batch index b (a sequence)
Weighted(b, o, i, m) ==
    At(layer.individual_sensetivity, <<o, i, 0>>) * At(components, b \o <<m, i>>)

\* C15: the cumulative input-side environment sums the sensitivity-weighted
\* components over the output-neuron axis: cumulative_env_inputs[b, i, m] =
\* sum over o of individual_sensetivity[o, i, 0] * components[b, m, i], of
\* shape [*B, in_features, modes_in].
C15_EnvInputs ==
    (pc = "returned" /\ Conformant) =>
        /\ ~result.raised
        /\ LET cum == result.cumulative_env_inputs
               r == Rank(cum)
           IN /\ cum.shape = Batch(x, 1) \o <<layer.in_features, layer.theta_modes_in>>
              /\ \A k \in DOMAIN cum.data :
                    LET idx == Unravel(cum.shape, k)
                        b == SubSeq(idx, 1, r - 2)
                    IN cum.data[k] =
                           SumTo([o \in 0..(layer.out_features - 1) |->
                                     Weighted(b, o, idx[r - 1], idx[r])],
                                 layer.out_features)

C15_Witness ==
    /\ ReturnedOk /\ Conformant
    /\ layer.out_features > 1 /\ layer.in_features > 1 /\ layer.theta_modes_in > 1
    /\ Rank(x) > 1
    /\ \E k \in DOMAIN result.cumulative_env_inputs.data :
          LET idx == Unravel(result.cumulative_env_inputs.shape, k)
              b == SubSeq(idx, 1, Rank(result.cumulative_env_inputs) - 2)
          IN /\ result.cumulative_env_inputs.data[k] # 0
             /\ \A o \in 0..(layer.out_features - 1) :
                   Weighted(b, o, idx[Len(idx) - 1], idx[Len(idx)]) # 0

\* C16: the cumulative output-side environment sums the same weighted
\* tensor over the input-neuron axis and is then gated by the projection's
\* output: gated[b, o, m] = transformed_x[b, o] * (sum over i of
\* individual_sensetivity[o, i, 0] * components[b, m, i]), where
\* transformed_x[b, o] = sum over i of weight[o, i] * perceptual_x[b, i] +
\* bias[o]; the output-side normalization is applied to the gated tensor.
C16_Gate ==
    (pc = "returned" /\ Conformant) =>
        /\ ~result.raised
        /\ LET g == result.gated
               r == Rank(g)
           IN /\ g.shape = Batch(x, 1) \o <<layer.out_features, layer.theta_modes_in>>
              /\ result.cumulative_env_outputs.shape = g.shape
              /\ \A k \in DOMAIN g.data :
                    LET idx == Unravel(g.shape, k)
                        b == SubSeq(idx, 1, r - 2)
                        o == idx[r - 1]
                        env == SumTo([i \in 0..(layer.in_features - 1) |->
                                         Weighted(b, o, i, idx[r])],
                                     layer.in_features)
                        row == Ravel(Batch(x, 1), b)
                    IN /\ result.cumulative_env_outputs.data[k] = env
                       /\ At(result.transformed_x, b \o <<o>>) =
                              Projected(result.perceptual_x.data, row, o)
                       /\ g.data[k] = At(result.transformed_x, b \o <<o>>) * env
              /\ result.modulated_env = apply_norm(layer.norm_env_output, g)

C16_Witness ==
    /\ ReturnedOk /\ Conformant
    /\ layer.theta_normalize_env_output
    /\ layer.out_features > 1 /\ layer.in_features > 1 /\ layer.theta_modes_in > 1
    /\ Rank(x) > 1
    /\ \E o \in DOMAIN layer.bias.data : layer.bias.data[o] # 0
    /\ \E k \in DOMAIN result.gated.data : result.gated.data[k] # 0
    /\ result.modulated_env # result.gated
    /\ result.modulated_env #
           mul(apply_norm(layer.norm_env_output, result.cumulative_env_outputs),
               unsqueeze(result.transformed_x, -1))

\* tensor t with one added to every element whose coordinate along axis
\* (1-based) differs from i
ShiftOthers(t, axis, i) ==
    MkTensor(t.shape, [k \in Offsets(t.shape) |->
                          t.data[k] + (IF Coord(t.shape, k, axis) = i THEN 0 ELSE 1)])

\* C17: the perceptual signal is a per-input-neuron weighted sum over modes
\* with the bias added last: perceptual_x[b, i] = x[b, i] * (sum over m of
\* env_normalized[b, i, m] * perception[i, m, 0]) + perceptual_bias[i]; and
\* the step mixes no input neurons: what it computes for neuron i is the same
\* when the entries of x and of env_normalized for every other neuron change.
C17_Perceptual ==
    (pc = "returned" /\ Conformant) =>
        /\ ~result.raised
        /\ LET px == result.perceptual_x
               r == Rank(px)
           IN /\ px.shape = x.shape
              /\ \A k \in DOMAIN px.data :
                    LET idx == Unravel(px.shape, k)
                        i == idx[r]
                    IN px.data[k] =
                           x.data[k]
                               * SumTo([m \in 0..(layer.theta_modes_in - 1) |->
                                           At(result.env_normalized, idx \o <<m>>)
                                               * At(layer.perception, <<i, m, 0>>)],
                                       layer.theta_modes_in)
                           + layer.perceptual_bias.data[i]
              /\ \A i \in 0..(layer.in_features - 1) :
                    LET shifted ==
                            step5(layer, ShiftOthers(x, r, i), components,
                                  [Locals0 EXCEPT !.env_normalized =
                                      ShiftOthers(result.env_normalized, r, i)]).perceptual_x
                    IN \A k \in DOMAIN px.data :
                          Coord(px.shape, k, r) = i => shifted.data[k] = px.data[k]

C17_Witness ==
    /\ ReturnedOk /\ Conformant
    /\ layer.in_features > 1 /\ layer.theta_modes_in > 1 /\ Rank(x) > 1
    /\ layer.theta_normalize_env_input
    /\ \E k \in DOMAIN result.perceptual_x.data :
          /\ layer.perceptual_bias.data[k % layer.in_features] # 0
          /\ x.data[k] \notin {0, 1}
          /\ result.perceptual_x.data[k] # layer.perceptual_bias.data[k % layer.in_features]

\* C18: in step 4 the gain is applied before the bias and both before the
\* normalization: the tensor handed to the input-side normalization is
\* cumulative_env_inputs[b, i, m] * env_sensetivity[i, m] + env_bias[i, m],
\* not (cumulative_env_inputs + env_bias) * env_sensetivity, and
\* env_normalized is the normalization of that tensor.
C18_GainThenBias ==
    (pc = "returned" /\ Conformant) =>
        /\ ~result.raised
        /\ LET eb == result.env_biased
               r == Rank(eb)
           IN /\ eb.shape = result.cumulative_env_inputs.shape
              /\ \A k \in DOMAIN eb.data :
                    LET idx == Unravel(eb.shape, k)
                        im == <<idx[r - 1], idx[r]>>
                    IN eb.data[k] =
                           result.cumulative_env_inputs.data[k] * At(layer.env_sensetivity, im)
                           + At(layer.env_bias, im)
              /\ result.env_normalized = apply_norm(layer.norm_env_input, eb)

C18_Witness ==
    /\ ReturnedOk /\ Conformant
    /\ layer.in_features > 1 /\ layer.theta_modes_in > 1 /\ Rank(x) > 1
    /\ layer.theta_normalize_env_input
    /\ result.env_normalized # result.env_biased
    /\ \E k \in DOMAIN result.env_biased.data :
          LET idx == Unravel(result.env_biased.shape, k)
              im == <<idx[Len(idx) - 1], idx[Len(idx)]>>
          IN /\ result.cumulative_env_inputs.data[k] # 0
             /\ result.env_biased.data[k] #
                    (result.cumulative_env_inputs.data[k] + At(layer.env_bias, im))
                        * At(layer.env_sensetivity, im)

\* ---- which step reads which step's output
RECURSIVE Trace(_, _, _, _, _)
\* the locals of a call before each of its steps, and after the last:
\* Trace(1, self, x, components, <<Locals0>>)[j] holds before step j
Trace(j, self, x_, components_, acc) ==
    IF j > 10 THEN acc
    ELSE Trace(j + 1, self, x_, components_,
               Append(acc, Step(j, self, x_, components_, acc[j])))

\* the names step k binds in the call with trace tr
Writes(k, tr) == {f \in DOMAIN Locals0 : tr[k + 1][f] # tr[k][f]}

\* step j reads the name f: with f unbound, step j does not produce what it
\* produces with f bound
ReadsName(j, f, self, x_, components_, tr) ==
    LET starved == Step(j, self, x_, components_, [tr[j] EXCEPT ![f] = RuntimeError])
    IN \E g \in DOMAIN Locals0 \ {f} : starved[g] # tr[j + 1][g]

\* step j reads no name outside S: with every other name unbound it binds
\* what it binds in the call
ReadsOnly(j, S, self, x_, components_, tr) ==
    LET kept == [f \in DOMAIN Locals0 |-> IF f \in S THEN tr[j][f] ELSE RuntimeError]
        fed == Step(j, self, x_, components_, kept)
    IN \A g \in Writes(j, tr) : fed[g] = tr[j + 1][g]

\* step j reads a value step k produced
Reads(j, k, self, x_, components_, tr) ==
    \E f \in Writes(k, tr) : ReadsName(j, f, self, x_, components_, tr)

\* the pairs <<k, j>> of the algorithm: step j reads what step k produced
Consumers ==
    {<<1, 2>>, <<2, 3>>, <<2, 7>>, <<3, 4>>, <<4, 5>>, <<5, 6>>,
     <<6, 8>>, <<7, 8>>, <<8, 9>>, <<9, 10>>}

\* the names bound by the steps whose output step j reads
Supplied(j, tr) == UNION {Writes(kj[1], tr) : kj \in {p \in Consumers : p[2] = j}}

\* C19 as stated: no intermediate value produced by step k is read by any
\* step other than step k + 1, that is, step j reads nothing but what step
\* j - 1 produced.
C19_Stated ==
    (pc = "returned" /\ Conformant) =>
        LET tr == Trace(1, layer, x, components, <<Locals0>>)
        IN \A j \in Steps :
              ReadsOnly(j, IF j = 1 THEN {} ELSE Writes(j - 1, tr), layer, x, components, tr)

\* C19: every step reads only what earlier steps produced, and the readers
\* are exactly these: each step's output is read by the next step, except
\* that step 2's output (the weighted product) is read by step 3 and again
\* by step 7, and step 6's output (transformed_x) is read by step 8 and not
\* by step 7; transformed_x is also what the call returns beside step 10's
\* param_quads.
C19_Consumers ==
    (pc = "returned" /\ Conformant) =>
        LET tr == Trace(1, layer, x, components, <<Locals0>>)
        IN /\ \A j \in Steps : ReadsOnly(j, Supplied(j, tr), layer, x, components, tr)
           /\ \A kj \in Consumers : Reads(kj[2], kj[1], layer, x, components, tr)
           /\ ~result.raised
           /\ result.transformed_x = tr[11].transformed_x
           /\ result.param_quads = tr[11].param_quads
           /\ tr[11].transformed_x = tr[7].transformed_x

C19_Witness ==
    /\ ReturnedOk /\ Conformant
    /\ layer.in_features > 1 /\ layer.out_features > 1
    /\ LET tr == Trace(1, layer, x, components, <<Locals0>>)
           t == tr[7].individual_sensetivity
           bumped == [tr[7] EXCEPT !.individual_sensetivity =
                         [t EXCEPT !.data = [t.data EXCEPT ![1] = @ + 1]]]
       IN /\ Reads(7, 2, layer, x, components, tr)
          /\ Reads(8, 6, layer, x, components, tr)
          /\ ~Reads(7, 6, layer, x, components, tr)
          /\ ~ReadsOnly(7, Writes(6, tr), layer, x, components, tr)
          /\ step7(layer, x, components, bumped).cumulative_env_outputs
                 # result.cumulative_env_outputs

\* ---- the first forward passes of a new layer
\* emission tensors to feed step 10 with: every shape-conformant tensor of a
\* small family of draws
EmissionProbes(shape) ==
    {MkTensor(shape, [k \in Offsets(shape) |-> Draw(salt, k, -2, 2)]) : salt \in {71, 72, 73}}

\* quads[b, n, q, o] = raw[b, o, 4*n + q] for every index
QuadsOf(quads, raw) ==
    LET r == Rank(raw)
    IN /\ quads.ok /\ raw.ok
       /\ quads.shape = SubSeq(raw.shape, 1, r - 2) \o <<raw.shape[r] \div 4, 4, raw.shape[r - 1]>>
       /\ \A k \in DOMAIN quads.data :
             LET idx == Unravel(quads.shape, k)
                 b == SubSeq(idx, 1, r - 2)
             IN quads.data[k] = At(raw, b \o <<idx[r + 1], 4 * idx[r - 1] + idx[r]>>)

\* C20: before any optimizer update emission_scale is all ones and
\* emission_bias is all zeros, so step 10 only re-lays its input out:
\* param_quads[b, n, q, o] = emission_raw[b, o, 4*n + q], in the call made
\* and for every emission tensor step 10 could be handed.
C20_FreshAffine ==
    (updates = 0) =>
        /\ layer.emission_scale.shape = <<layer.out_features, 4 * layer.theta_modes_out>>
        /\ layer.emission_bias.shape = <<layer.out_features, 4 * layer.theta_modes_out>>
        /\ \A k \in DOMAIN layer.emission_scale.data : layer.emission_scale.data[k] = 1
        /\ \A k \in DOMAIN layer.emission_bias.data : layer.emission_bias.data[k] = 0
        /\ (pc = "returned" /\ Conformant) =>
              /\ ~result.raised
              /\ QuadsOf(result.param_quads, result.emission_raw)
              /\ \A raw \in EmissionProbes(result.emission_raw.shape) :
                    QuadsOf(step10(layer, x, components,
                                   [Locals0 EXCEPT !.emission_raw = raw]).param_quads,
                            raw)

C20_Witness ==
    /\ ReturnedOk /\ Conformant /\ updates = 0
    /\ layer.out_features > 1 /\ layer.theta_modes_out > 1 /\ Rank(x) > 1
    /\ \E raw \in EmissionProbes(result.emission_raw.shape) :
          LET quads == step10(layer, x, components,
                              [Locals0 EXCEPT !.emission_raw = raw]).param_quads
          IN /\ quads.ok
             /\ quads.data # raw.data
             /\ \E k \in DOMAIN raw.data : raw.data[k] \notin {0, 1}
\* ---- the signal path and the emission path
\* the layer with its emission path changed: each emission parameter moved,
\* the output-side normalization moved, switched on or switched off
EmissionVariants(self) ==
    {[self EXCEPT !.emission = Redrawn(@, 81)],
     [self EXCEPT !.emission_scale = Redrawn(@, 82)],
     [self EXCEPT !.emission_bias = Redrawn(@, 83)],
     [self EXCEPT !.norm_env_output =
         IF @.kind = "Identity"
         THEN StepNorm(LayerNorm(<<self.out_features, self.theta_modes_in>>), 84)
         ELSE [kind |-> "Identity"]],
     [self EXCEPT !.norm_env_output = StepNorm(@, 86),
                  !.emission = Redrawn(@, 87),
                  !.emission_scale = Redrawn(@, 88),
                  !.emission_bias = Redrawn(@, 89)]}

\* the locals before step 8 with one entry of transformed_x moved by 1
BumpedProjection(tr) ==
    LET t == tr[8].transformed_x
    IN [tr[8] EXCEPT !.transformed_x = [t EXCEPT !.data = [t.data EXCEPT ![0] = @ + 1]]]

\* C21: for fixed x, components and all other parameters, changing
\* emission, emission_scale, emission_bias or the output-side normalization
\* leaves transformed_x unchanged, while the emission path reads
\* transformed_x (step 8 takes it as its gate).
C21_OneWay ==
    (pc = "returned" /\ Conformant) =>
        /\ ~result.raised
        /\ \A other \in EmissionVariants(layer) :
              LET r == forward(other, x, components)
              IN ~r.raised /\ r.transformed_x = result.transformed_x
        /\ LET tr == Trace(1, layer, x, components, <<Locals0>>)
           IN /\ ReadsName(8, "transformed_x", layer, x, components, tr)
              /\ \A j \in 1..6 : \A f \in Writes(8, tr) \cup Writes(9, tr) \cup Writes(10, tr) :
                    tr[j + 1][f] = RuntimeError

C21_Witness ==
    /\ ReturnedOk /\ Conformant
    /\ layer.out_features > 1 /\ layer.theta_modes_in > 1 /\ Rank(x) > 1
    /\ \E other \in EmissionVariants(layer) :
          forward(other, x, components).param_quads # result.param_quads
    /\ LET tr == Trace(1, layer, x, components, <<Locals0>>)
       IN Run(8, 10, layer, x, components, BumpedProjection(tr)).param_quads
              # result.param_quads
\* ---- batch elements
\* t[b] for the b-th element (row-major) of the nb leading batch axes of t
Element(t, b, nb) ==
    LET s == SubSeq(t.shape, nb + 1, Rank(t))
    IN MkTensor(s, [k \in Offsets(s) |-> t.data[b * Prod(s) + k]])

\* t with its b-th batch element replaced by other values
Replaced(t, b, nb, salt) ==
    LET n == Prod(SubSeq(t.shape, nb + 1, Rank(t)))
    IN MkTensor(t.shape, [k \in Offsets(t.shape) |->
           IF k \div n = b THEN Draw(salt, k, -1, 1) ELSE t.data[k]])

\* C22: batch elements do not interact: the slice of (transformed_x,
\* param_quads) at batch index b is what forward returns for (x[b],
\* components[b]) alone, and replacing one element's inputs changes no
\* other element's outputs.
C22_BatchElements ==
    (pc = "returned" /\ Conformant) =>
        LET nb == Rank(x) - 1
            count == Prod(Batch(x, 1))
        IN /\ ~result.raised
           /\ \A b \in 0..(count - 1) :
                 LET alone == forward(layer, Element(x, b, nb), Element(components, b, nb))
                 IN /\ ~alone.raised
                    /\ alone.transformed_x = Element(result.transformed_x, b, nb)
                    /\ alone.param_quads = Element(result.param_quads, b, nb)
           /\ (nb > 0) =>
                 LET moved == forward(layer, Replaced(x, 0, nb, 91), Replaced(components, 0, nb, 92))
                 IN /\ ~moved.raised
                    /\ \A b \in 1..(count - 1) :
                          /\ Element(moved.transformed_x, b, nb) = Element(result.transformed_x, b, nb)
                          /\ Element(moved.param_quads, b, nb) = Element(result.param_quads, b, nb)

C22_Witness ==
    /\ ReturnedOk /\ Conformant
    /\ Rank(x) = 3 /\ Prod(Batch(x, 1)) > 1
    /\ layer.theta_normalize_env_input /\ layer.theta_normalize_env_output
    /\ layer.in_features > 1 /\ layer.out_features > 1
    /\ Element(result.param_quads, 0, 2) # Element(result.param_quads, 1, 2)
    /\ Element(result.transformed_x, 0, 2) # Element(result.transformed_x, 1, 2)
    /\ forward(layer, Replaced(x, 0, 2, 91), Replaced(components, 0, 2, 92)).param_quads
           # result.param_quads
\* ---- the environment initializer
\* every entry v of t has |v| <= num / den
Within(t, num, den) ==
    \A k \in DOMAIN t.data : t.data[k] * den <= num /\ -(t.data[k] * den) <= num

\* C23: at construction every entry of env_sensetivity and of env_bias
\* lies within [-modes_in/in_features, +modes_in/in_features].
C23_EnvBound ==
    (updates = 0) =>
        /\ layer.env_sensetivity.shape = <<layer.in_features, layer.theta_modes_in>>
        /\ layer.env_bias.shape = <<layer.in_features, layer.theta_modes_in>>
        /\ Within(layer.env_sensetivity, layer.theta_modes_in, layer.in_features)
        /\ Within(layer.env_bias, layer.theta_modes_in, layer.in_features)

C23_Witness ==
    /\ updates = 0 /\ pc = "idle"
    /\ layer.theta_modes_in > layer.in_features
    /\ \E k \in DOMAIN layer.env_sensetivity.data : layer.env_sensetivity.data[k] # 0
    /\ \E k \in DOMAIN layer.env_bias.data : layer.env_bias.data[k] # 0
    /\ ~Within(layer.env_sensetivity, layer.theta_modes_in - 1, layer.in_features)
\* ============================================================ the training script
\* src/experiments/aedw/train_decoder.py: train() and the helpers it calls,
\* on a DecoderOnlyModel reduced to its named parameters.  Parameter values
\* and losses live on the integer grid; a quotient is kept as a fraction.

MaxSteps == 7        \* total_steps of a train() call
EvalIds == 16        \* the eval_* functions call model(torch.arange(0, 16, 1))
Losses == {0, 1, 2}  \* the values a step's loss takes

Groups == {"ctx", "latents", "model"}

\* DecoderOnlyModel.named_parameters(): the two caches and two of the rest
ParameterNames == {"data_cache_ctx", "data_cache_latents", "conv_out.weight", "wl_ctx_04.mod_i"}

\* Python's `marker in name` for the markers the script tests
Contains(name, marker) ==
    CASE marker = "data_cache" -> name \in {"data_cache_ctx", "data_cache_latents"}
      [] marker = "data_cache_ctx" -> name = "data_cache_ctx"
      [] marker = "data_cache_latents" -> name = "data_cache_latents"

\* a fresh model: caches of cache_len rows, every parameter trainable
DecoderOnlyModel(cache_len) ==
    [requires_grad |-> [n \in ParameterNames |-> TRUE],
     data |-> [n \in ParameterNames |->
                  IF Contains(n, "data_cache")
                  THEN [k \in 1..cache_len |-> Draw(IF n = "data_cache_ctx" THEN 51 ELSE 52, k, -1, 1)]
                  ELSE IF n = "conv_out.weight" THEN <<-3, -2, -1, 0, 1, 2, 3>>
                  ELSE <<1, -1, 2>>]]

\* DecoderOnlyModel.forward(ids) indexes both caches with ids (lines 609-610)
ModelCallRaises(m, ids) ==
    \E k \in DOMAIN ids :
        ids[k] >= Len(m.data["data_cache_ctx"]) \/ ids[k] >= Len(m.data["data_cache_latents"])

freeze_model(m) ==
    [m EXCEPT !.requires_grad =
        [n \in ParameterNames |-> IF Contains(n, "data_cache") THEN @[n] ELSE FALSE]]

unfreeze_model(m) ==
    [m EXCEPT !.requires_grad =
        [n \in ParameterNames |-> IF Contains(n, "data_cache") THEN @[n] ELSE TRUE]]

\* freeze_latents matching every cache name
freeze_latents_every_cache(m) ==
    [m EXCEPT !.requires_grad =
        [n \in ParameterNames |-> IF Contains(n, "data_cache") THEN FALSE ELSE @[n]]]

freeze_latents(m) ==
    [m EXCEPT !.requires_grad =
        [n \in ParameterNames |-> IF Contains(n, "data_cache_latents") THEN FALSE ELSE @[n]]]

unfreeze_latents(m) ==
    [m EXCEPT !.requires_grad =
        [n \in ParameterNames |-> IF Contains(n, "data_cache_latents") THEN TRUE ELSE @[n]]]

freeze_ctx(m) ==
    [m EXCEPT !.requires_grad =
        [n \in ParameterNames |-> IF Contains(n, "data_cache_ctx") THEN FALSE ELSE @[n]]]

unfreeze_ctx(m) ==
    [m EXCEPT !.requires_grad =
        [n \in ParameterNames |-> IF Contains(n, "data_cache_ctx") THEN TRUE ELSE @[n]]]

\* the hysteresis loop with the second mask taken after the first update
weights_hysteresis_loop_zero_late_mask(m, bound, jump) ==
    [m EXCEPT !.data =
        [n \in ParameterNames |->
            IF Contains(n, "data_cache") THEN @[n]
            ELSE LET param == @[n]
                     cond_to_neg == [k \in DOMAIN param |-> param[k] > 0 /\ param[k] < bound]
                     after_neg == [k \in DOMAIN param |->
                                      IF cond_to_neg[k] THEN param[k] - jump ELSE param[k]]
                     cond_to_pos == [k \in DOMAIN param |->
                                        after_neg[k] < 0 /\ after_neg[k] > -bound]
                 IN [k \in DOMAIN param |->
                        IF cond_to_pos[k] THEN after_neg[k] + jump ELSE after_neg[k]]]]

\* lines 1222-1236: both masks are taken from the parameter as it is on
\* entry, then the two updates are applied in turn
weights_hysteresis_loop_zero(m, bound, jump) ==
    [m EXCEPT !.data =
        [n \in ParameterNames |->
            IF Contains(n, "data_cache") THEN @[n]
            ELSE LET param == @[n]
                     cond_to_neg == [k \in DOMAIN param |-> param[k] > 0 /\ param[k] < bound]
                     cond_to_pos == [k \in DOMAIN param |-> param[k] < 0 /\ param[k] > -bound]
                     after_neg == [k \in DOMAIN param |->
                                      IF cond_to_neg[k] THEN param[k] - jump ELSE param[k]]
                 IN [k \in DOMAIN param |->
                        IF cond_to_pos[k] THEN after_neg[k] + jump ELSE after_neg[k]]]]

\* optimizer.step(): the n-th update moves every parameter that has a
\* gradient (requires_grad) to new values; the others are skipped
OptimizerStepped(m, n) ==
    [m EXCEPT !.data =
        [p \in ParameterNames |->
            IF m.requires_grad[p]
            THEN [k \in DOMAIN @[p] |-> Draw(7 * n + Len(@[p]), k, -3, 3)]
            ELSE @[p]]]

\* ---- the accumulated loss
\* a loss tensor: its value, the steps whose losses its graph holds, and
\* whether anything in that graph requires grad
Tensor(value, steps, grad) == [value |-> value, steps |-> steps, grad |-> grad]

\* the Python int 0
IntZero == Tensor(0, {}, FALSE)

\* a + b
Plus(a, b) == Tensor(a.value + b.value, a.steps \cup b.steps, a.grad \/ b.grad)

\* the accumulation branch backpropagating the sum without dividing it
Accumulated_undivided(count, acc, loss, every) ==
    IF count = every
    THEN [accumulation_step |-> 0, backward |-> Some([num |-> Plus(acc, loss), den |-> 1])]
    ELSE [accumulation_step |-> count,
          backward |-> None,
          loss_accumulator |-> IF acc.value = 0 THEN loss ELSE Plus(acc, loss)]

\* lines 1034-1041 and 1094-1097: count is accumulation_step after line 950.
\* When it equals grad_accumulation_steps the counter is reset and
\* (loss_accumulator + loss) / grad_accumulation_steps goes to backward();
\* otherwise the loss is kept: it replaces an accumulator equal to 0 and is
\* added to any other.
Accumulated(count, acc, loss, every) ==
    IF count = every
    THEN [accumulation_step |-> 0, backward |-> Some([num |-> Plus(acc, loss), den |-> every])]
    ELSE [accumulation_step |-> count,
          backward |-> None,
          loss_accumulator |-> IF acc.value = 0 THEN loss ELSE Plus(acc, loss)]

\* ---- one group's freeze schedule
GroupFreeze(g, m) ==
    CASE g = "ctx" -> freeze_ctx(m) [] g = "latents" -> freeze_latents(m) [] g = "model" -> freeze_model(m)

GroupUnfreeze(g, m) ==
    CASE g = "ctx" -> unfreeze_ctx(m) [] g = "latents" -> unfreeze_latents(m) [] g = "model" -> unfreeze_model(m)

\* the schedule block freezing a group at most once in an epoch
Scheduled_once_per_epoch(g, a, epoch, frozen, last) ==
    LET nth == a.freeze_nth_epoch[g]
        same == [epoch_frozen |-> frozen, last |-> last, event |-> "none"]
    IN IF nth # None /\ nth[1] > 0
       THEN IF frozen = None
            THEN IF epoch % nth[1] = 0 /\ last # epoch
                 THEN [epoch_frozen |-> Some(1), last |-> epoch, event |-> "froze"]
                 ELSE same
            ELSE IF last # epoch
                 THEN IF frozen[1] >= a.freeze_epochs[g]
                      THEN [epoch_frozen |-> None, last |-> epoch, event |-> "unfroze"]
                      ELSE [epoch_frozen |-> Some(frozen[1] + 1), last |-> epoch, event |-> "none"]
                 ELSE same
       ELSE same

\* lines 899-912 (ctx), 914-927 (latents), 929-942 (model): the block of one
\* group, from the epoch index of this step, the group's counter and the
\* epoch it last acted in
Scheduled(g, a, epoch, frozen, last) ==
    LET nth == a.freeze_nth_epoch[g]
        same == [epoch_frozen |-> frozen, last |-> last, event |-> "none"]
    IN IF nth # None /\ nth[1] > 0
       THEN IF frozen = None
            THEN IF epoch % nth[1] = 0
                 THEN [epoch_frozen |-> Some(1), last |-> epoch, event |-> "froze"]
                 ELSE same
            ELSE IF last # epoch
                 THEN IF frozen[1] >= a.freeze_epochs[g]
                      THEN [epoch_frozen |-> None, last |-> epoch, event |-> "unfroze"]
                      ELSE [epoch_frozen |-> Some(frozen[1] + 1), last |-> epoch, event |-> "none"]
                 ELSE same
       ELSE same

\* the model after the freeze and unfreeze calls of the three blocks
Refrozen(m, sched) ==
    LET act(g, mm) == IF sched[g].event = "froze" THEN GroupFreeze(g, mm)
                      ELSE IF sched[g].event = "unfroze" THEN GroupUnfreeze(g, mm)
                      ELSE mm
    IN act("model", act("latents", act("ctx", m)))

\* ---- batches
Min(a, b) == IF a < b THEN a ELSE b

\* Python's s[0:n]
Take(s, n) == SubSeq(s, 1, Min(n, Len(s)))

\* the slice that keeps the last id of the batch
Drop_overlapping(s, n) == SubSeq(s, Min(n - 1, Len(s)) + 1, Len(s))

\* Python's s[n:]
Drop(s, n) == SubSeq(s, Min(n, Len(s)) + 1, Len(s))

\* torch.randperm(n): the orders it can return
RandPerms(n) == {[i \in 1..n |-> f[i] - 1] : f \in Permutations(1..n)}

\* the rollover test reshuffling only when nothing is left
Exhausted_when_empty(ids, batch_size) == Len(ids) = 0

\* line 894
Exhausted(ids, batch_size) == Len(ids) - 1 < batch_size

\* the values of a sequence
Range(s) == {s[k] : k \in DOMAIN s}

\* ---- the arguments of the runs explored
Off == [g \in Groups |-> Some(0)]

Schedule(ctx, latents, mdl) == [g \in Groups |-> IF g = "ctx" THEN ctx ELSE IF g = "latents" THEN latents ELSE mdl]

TrainArgs(n, batch_size, sliding, accumulate, nth, epochs, hysteresis, cache_len) ==
    [samples |-> n, total_steps |-> MaxSteps, batch_size |-> batch_size,
     sliding_batch |-> sliding, grad_accumulation_steps |-> accumulate,
     freeze_nth_epoch |-> nth, freeze_epochs |-> epochs,
     weights_hysteresis_loop |-> hysteresis,
     weights_hysteresis_loop_zero_bound |-> 2, weights_hysteresis_loop_zero_jump |-> 4,
     cache_len |-> cache_len, losses |-> Losses]

\* batching varied (samples, batch_size, sliding_batch), no freezing; the
\* longer epochs are run with one loss value
BatchRuns ==
    {TrainArgs(nb[1], nb[2], s, 2, Off, [g \in Groups |-> 0], FALSE, EvalIds) :
        nb \in {<<2, 1>>, <<3, 1>>, <<3, 2>>}, s \in BOOLEAN}
    \cup {[TrainArgs(5, 2, s, 1, Off, [g \in Groups |-> 0], FALSE, EvalIds) EXCEPT !.losses = {1}] :
            s \in BOOLEAN}

\* grad_accumulation_steps varied
AccumulationRuns ==
    {TrainArgs(3, 1, FALSE, a, Off, [g \in Groups |-> 0], TRUE, EvalIds) : a \in {1, 2, 3}}

\* freeze schedules varied: (nth_epoch, epochs) of ctx, of latents, of model
FreezeRuns ==
    {TrainArgs(3, b, FALSE, ah[1], Schedule(Some(s[1]), Some(s[3]), s[5]),
               Schedule(s[2], s[4], s[6]), ah[2], 4) :
        b \in {1, 2}, ah \in {<<1, FALSE>>, <<2, TRUE>>},
        s \in {<<1, 1, 2, 1, None, 0>>, <<2, 2, 3, 1, Some(0), 0>>,
               <<1, 2, 2, 0, Some(2), 3>>, <<1, 1, 1, 1, Some(1), 1>>,
               <<3, 2, 2, 3, Some(1), 0>>}}

TrainRuns == BatchRuns \cup AccumulationRuns \cup FreezeRuns

\* ---- the eval_* helpers
\* lines 1488-1497, 1500-1509, 1512-1521: clone the cache, replace it, call
\* the model on ids 0..15, put the clone back, convert and write images.
\* Nothing catches an exception: a raising model call leaves the function
\* before the clone is put back.
EvalWith(m, cache, replacement, write_fails) ==
    LET saved == m.data[cache]
        replaced == [m EXCEPT !.data[cache] = replacement]
    IN IF ModelCallRaises(replaced, [k \in 1..EvalIds |-> k - 1])
       THEN [model |-> replaced, exit |-> "model_raised"]
       ELSE [model |-> [replaced EXCEPT !.data[cache] = saved],
             exit |-> IF write_fails THEN "write_raised" ELSE "returned"]

\* torch.randn_like(t)
randn_like(t, salt) == [k \in DOMAIN t |-> Draw(salt, k, -3, 3)]

\* torch.ones_like(t)
ones_like(t) == [k \in DOMAIN t |-> 1]

eval_ctx_rand(m, salt, write_fails) ==
    EvalWith(m, "data_cache_ctx", randn_like(m.data["data_cache_ctx"], salt), write_fails)

eval_latents_rand(m, salt, write_fails) ==
    EvalWith(m, "data_cache_latents", randn_like(m.data["data_cache_latents"], salt), write_fails)

eval_latents_ones(m, salt, write_fails) ==
    EvalWith(m, "data_cache_latents", ones_like(m.data["data_cache_latents"]), write_fails)

EvalNames == {"eval_ctx_rand", "eval_latents_rand", "eval_latents_ones"}

\* ---- the script as a state machine
\* what an observer has seen before the first step
Unobserved ==
    [step |-> -1, loss |-> 0, since |-> <<>>, stepped |-> FALSE,
     rollover |-> FALSE, event |-> [g \in Groups |-> "none"],
     frozen_at |-> [g \in Groups |-> 0],
     epoch |-> [count |-> 0, seen |-> {}, overlap |-> FALSE],
     closed |-> None, reshuffles |-> 0]

\* the script starts: a model is built and train()'s arguments are chosen
TrainInit ==
    /\ \E a \in TrainRuns : args = a /\ model = DecoderOnlyModel(a.cache_len)
    /\ at = "main"
    /\ step_idx = 0 /\ accumulation_step = 0 /\ loss_accumulator = IntZero
    /\ epoch_ids = <<>> /\ epoch_idx = 0
    /\ epoch_frozen = [g \in Groups |-> None]
    /\ frozen_last_epoch_id = [g \in Groups |-> 0]
    /\ batch_ids = <<>>
    /\ optimizer = [steps |-> 0, backward |-> None]
    /\ observed = Unobserved
    /\ evaluation = None
    /\ layer = <<>> /\ twin = <<>> /\ x = RuntimeError /\ components = RuntimeError
    /\ result = NoResult /\ pc = "idle" /\ served = 0 /\ updates = 0
    /\ heap = <<>> /\ instances = <<>> /\ workers = <<>>

\* lines 869-892: train() binds its locals
TrainBegin(perm) ==
    /\ at = "main"
    /\ evaluation = None
    /\ at' = "loop"
    /\ step_idx' = 0
    /\ accumulation_step' = 0
    /\ loss_accumulator' = IntZero
    /\ epoch_ids' = perm
    /\ epoch_idx' = 0
    /\ epoch_frozen' = [g \in Groups |-> None]
    /\ frozen_last_epoch_id' = [g \in Groups |-> 0]
    /\ observed' = Unobserved
    /\ UNCHANGED <<args, model, batch_ids, optimizer, evaluation>>
    /\ UNCHANGED solo
    /\ UNCHANGED pair

\* lines 893-1131: one iteration of the loop, with the permutation
\* randperm returns if it is called and the value the loss takes
TrainStep(perm, value) ==
    /\ at = "loop"
    /\ step_idx < args.total_steps
    /\ LET rollover == Exhausted(epoch_ids, args.batch_size)
           epoch == IF rollover THEN epoch_idx + 1 ELSE epoch_idx
           ids == IF rollover THEN perm ELSE epoch_ids
           sched == [g \in Groups |->
                        Scheduled(g, args, epoch, epoch_frozen[g], frozen_last_epoch_id[g])]
           scheduled_model == Refrozen(model, sched)
           batch == Take(ids, args.batch_size)
           loss == Tensor(value, {step_idx},
                          \E n \in ParameterNames : scheduled_model.requires_grad[n])
           acc == Accumulated(accumulation_step + 1, loss_accumulator, loss,
                              args.grad_accumulation_steps)
           raises == acc.backward # None /\ ~acc.backward[1].num.grad
           stepped_model == OptimizerStepped(scheduled_model, optimizer.steps + 1)
           since == IF observed.stepped THEN <<value>> ELSE Append(observed.since, value)
       IN /\ epoch_idx' = epoch
          /\ epoch_ids' = Drop(ids, IF args.sliding_batch THEN 1 ELSE args.batch_size)
          /\ batch_ids' = batch
          /\ epoch_frozen' = [g \in Groups |-> sched[g].epoch_frozen]
          /\ frozen_last_epoch_id' = [g \in Groups |-> sched[g].last]
          /\ accumulation_step' = acc.accumulation_step
          /\ observed' =
                [step |-> step_idx, loss |-> value, since |-> since,
                 stepped |-> acc.backward # None /\ ~raises,
                 rollover |-> rollover,
                 event |-> [g \in Groups |-> sched[g].event],
                 frozen_at |-> [g \in Groups |->
                                   IF sched[g].event = "froze" THEN epoch
                                   ELSE observed.frozen_at[g]],
                 epoch |-> LET sofar == IF rollover THEN Unobserved.epoch ELSE observed.epoch
                           IN [count |-> sofar.count + 1,
                               seen |-> sofar.seen \cup Range(batch),
                               overlap |-> sofar.overlap \/ sofar.seen \cap Range(batch) # {}],
                 closed |-> IF rollover THEN Some(observed.epoch) ELSE observed.closed,
                 reshuffles |-> observed.reshuffles + (IF rollover THEN 1 ELSE 0)]
          /\ IF acc.backward = None
             THEN /\ loss_accumulator' = acc.loss_accumulator
                  /\ model' = scheduled_model
                  /\ optimizer' = optimizer
                  /\ at' = "loop"
                  /\ step_idx' = step_idx + 1
             ELSE IF raises
             THEN /\ loss_accumulator' = acc.backward[1].num
                  /\ model' = scheduled_model
                  /\ optimizer' = optimizer
                  /\ at' = "raised"
                  /\ step_idx' = step_idx
             ELSE /\ loss_accumulator' = IntZero
                  /\ model' =
                        IF args.weights_hysteresis_loop
                        THEN weights_hysteresis_loop_zero(stepped_model,
                                 args.weights_hysteresis_loop_zero_bound,
                                 args.weights_hysteresis_loop_zero_jump)
                        ELSE stepped_model
                  /\ optimizer' = [steps |-> optimizer.steps + 1,
                                   backward |-> acc.backward]
                  /\ at' = "loop"
                  /\ step_idx' = step_idx + 1
    /\ UNCHANGED <<args, evaluation>>
    /\ UNCHANGED solo
    /\ UNCHANGED pair

\* lines 1133-1141: the loop is over
TrainEnd ==
    /\ at = "loop"
    /\ step_idx = args.total_steps
    /\ at' = "done"
    /\ UNCHANGED <<args, model, step_idx, accumulation_step, loss_accumulator, epoch_ids, epoch_idx, epoch_frozen, frozen_last_epoch_id, batch_ids, optimizer, observed, evaluation>>
    /\ UNCHANGED solo
    /\ UNCHANGED pair

\* the script calls one of the eval_* helpers on the model instead of
\* training it; writing the images may fail
Evaluate(fn, write_fails) ==
    /\ at = "main"
    /\ evaluation = None
    /\ LET salt == 60 + step_idx
           outcome == CASE fn = "eval_ctx_rand" -> eval_ctx_rand(model, salt, write_fails)
                        [] fn = "eval_latents_rand" -> eval_latents_rand(model, salt, write_fails)
                        [] fn = "eval_latents_ones" -> eval_latents_ones(model, salt, write_fails)
       IN /\ model' = outcome.model
          /\ evaluation' = Some([fn |-> fn, exit |-> outcome.exit, before |-> model])
    /\ UNCHANGED <<args, at, step_idx, accumulation_step, loss_accumulator, epoch_ids, epoch_idx, epoch_frozen, frozen_last_epoch_id, batch_ids, optimizer, observed>>
    /\ UNCHANGED solo
    /\ UNCHANGED pair

TrainNext ==
    \/ \E perm \in RandPerms(args.samples) : TrainBegin(perm)
    \/ \E perm \in (IF Exhausted(epoch_ids, args.batch_size) THEN RandPerms(args.samples) ELSE {epoch_ids}) :
          \E value \in args.losses : TrainStep(perm, value)
    \/ TrainEnd
    \/ \E fn \in EvalNames, write_fails \in BOOLEAN : Evaluate(fn, write_fails)

TrainSpec == TrainInit /\ [][TrainNext]_vars

\* ---- gradient accumulation
\* the sum of the entries of a sequence
SumSeq(s) == SumTo([j \in 0..(Len(s) - 1) |-> s[j + 1]], Len(s))

\* a step of the loop has run to its end
StepDone == at \in {"loop", "done"} /\ observed.step >= 0

\* C24: with G = grad_accumulation_steps, optimizer.step() is invoked on
\* exactly the steps with (step_idx + 1) mod G = 0; what is back-propagated
\* there is (the sum of the losses of the G steps since the previous
\* optimizer step) / G, and the accumulator is 0 afterwards; the losses of
\* the steps after the last multiple of G stay in the accumulator and are
\* never applied.
C24_Accumulation ==
    StepDone =>
        LET G == args.grad_accumulation_steps
        IN /\ observed.stepped <=> (observed.step + 1) % G = 0
           /\ optimizer.steps = step_idx \div G
           /\ accumulation_step = step_idx % G
           /\ observed.stepped =>
                 /\ optimizer.backward # None
                 /\ optimizer.backward[1].den = G
                 /\ Len(observed.since) = G
                 /\ optimizer.backward[1].num.value = SumSeq(observed.since)
                 /\ optimizer.backward[1].num.steps \subseteq (observed.step - G + 1)..observed.step
                 /\ observed.step \in optimizer.backward[1].num.steps
                 /\ loss_accumulator = IntZero
           /\ ~observed.stepped =>
                 /\ Len(observed.since) = accumulation_step
                 /\ loss_accumulator.value = SumSeq(observed.since)
                 /\ optimizer.backward # None =>
                       optimizer.backward[1].num.steps \cap loss_accumulator.steps = {}
           /\ at = "done" =>
                 /\ optimizer.steps = args.total_steps \div G
                 /\ loss_accumulator.steps \subseteq
                        (G * (args.total_steps \div G))..(args.total_steps - 1)

C24_Witness ==
    /\ at = "done"
    /\ args.grad_accumulation_steps = 3
    /\ optimizer.steps = 2
    /\ optimizer.backward[1].num.value = 5
    /\ optimizer.backward[1].den = 3
    /\ loss_accumulator.value = 2
    /\ loss_accumulator.steps = {6}
\* ---- freeze schedules
\* the parameters a group's freeze and unfreeze functions touch
GroupNames(g) ==
    CASE g = "ctx" -> {n \in ParameterNames : Contains(n, "data_cache_ctx")}
      [] g = "latents" -> {n \in ParameterNames : Contains(n, "data_cache_latents")}
      [] g = "model" -> {n \in ParameterNames : ~Contains(n, "data_cache")}

\* the group has a schedule: its nth_epoch is not None and is > 0
HasSchedule(g) == args.freeze_nth_epoch[g] # None /\ args.freeze_nth_epoch[g][1] > 0

\* K = max(1, freeze_epochs)
FreezeLength(g) == IF args.freeze_epochs[g] > 1 THEN args.freeze_epochs[g] ELSE 1

\* C25: for each freeze schedule with nth_epoch > 0, a group frozen while
\* epoch_idx = e stays frozen through every step of epochs e .. e+K-1 and
\* is unfrozen exactly at the first step of epoch e+K, K = max(1,
\* freeze_epochs); at every step the group is frozen (requires_grad False)
\* if and only if its epoch_frozen counter is not None.
C25_FreezeSpan ==
    (at \in {"loop", "done", "raised"}) =>
        \A g \in Groups :
            /\ \A n \in GroupNames(g) : model.requires_grad[n] <=> epoch_frozen[g] = None
            /\ ~HasSchedule(g) => epoch_frozen[g] = None
            /\ HasSchedule(g) =>
                  LET e == observed.frozen_at[g]
                      K == FreezeLength(g)
                  IN /\ epoch_frozen[g] # None =>
                           /\ e <= epoch_idx /\ epoch_idx <= e + K - 1
                           /\ epoch_frozen[g][1] = epoch_idx - e + 1
                     /\ observed.event[g] = "unfroze" =>
                           /\ observed.rollover
                           /\ epoch_idx = e + K
                           /\ epoch_frozen[g] = None
                     /\ observed.event[g] = "froze" => e = epoch_idx

C25_Witness ==
    /\ at = "loop"
    /\ \E g \in Groups :
          /\ HasSchedule(g) /\ args.freeze_epochs[g] = 2
          /\ observed.event[g] = "unfroze"
          /\ epoch_idx = 2 /\ observed.frozen_at[g] = 0
          /\ \A n \in GroupNames(g) : model.requires_grad[n]
    /\ \E g \in Groups : epoch_frozen[g] # None
\* the transition is an iteration of train()'s loop
IsTrainStep == at = "loop" /\ observed'.step # observed.step

\* C26 as stated: a freeze of a group is initiated only at the first
\* training step of an epoch whose index is a multiple of nth_epoch (or at
\* step 0).
C26_Stated ==
    (at \in {"loop", "done", "raised"}) =>
        \A g \in Groups :
            (HasSchedule(g) /\ observed.event[g] = "froze") =>
                /\ epoch_idx % args.freeze_nth_epoch[g][1] = 0
                /\ observed.rollover \/ observed.step = 0

\* C26: a freeze of a group is initiated exactly at a step that finds the
\* group's counter None while epoch_idx is a multiple of nth_epoch.  Such a
\* step is the first training step of its epoch (or step 0), or the step
\* right after a scheduled unfreeze in the same epoch; the latter happens
\* only when nth_epoch divides K = max(1, freeze_epochs).  When nth_epoch
\* does not divide K, a group stays trainable after a scheduled unfreeze at
\* least until the next epoch rollover.
C26_FreezeStart ==
    [][IsTrainStep =>
          \A g \in Groups :
              HasSchedule(g) =>
                  LET nth == args.freeze_nth_epoch[g][1]
                      froze == observed'.event[g] = "froze"
                      first == observed'.rollover \/ observed'.step = 0
                  IN /\ froze <=> (epoch_frozen[g] = None /\ epoch_idx' % nth = 0)
                     /\ (froze /\ ~first) =>
                           /\ observed.event[g] = "unfroze"
                           /\ epoch_idx' = epoch_idx
                           /\ FreezeLength(g) % nth = 0
                     /\ (observed.event[g] = "unfroze" /\ FreezeLength(g) % nth # 0 /\ ~observed'.rollover)
                           => epoch_frozen'[g] = None]_vars

C26_Witness ==
    /\ at = "loop"
    /\ \E g \in Groups :
          /\ HasSchedule(g)
          /\ observed.event[g] = "froze"
          /\ ~observed.rollover /\ observed.step > 0
          /\ epoch_idx > 0
          /\ \A n \in GroupNames(g) : ~model.requires_grad[n]
    /\ \E g \in Groups :
          /\ HasSchedule(g) /\ FreezeLength(g) % args.freeze_nth_epoch[g][1] # 0
          /\ epoch_frozen[g] = None /\ epoch_idx > 0 /\ ~observed.rollover
\* ---- batches
\* C27: with N > batch_size, every batch passed to the model holds exactly
\* batch_size pairwise-distinct sample ids, and without sliding_batch no
\* sample id appears in two batches of the same epoch.
C27_Batches ==
    (at \in {"loop", "done", "raised"} /\ observed.step >= 0 /\ args.samples > args.batch_size) =>
        /\ Len(batch_ids) = args.batch_size
        /\ Cardinality(Range(batch_ids)) = args.batch_size
        /\ Range(batch_ids) \subseteq 0..(args.samples - 1)
        /\ ~args.sliding_batch =>
              /\ ~observed.epoch.overlap
              /\ Cardinality(observed.epoch.seen) = observed.epoch.count * args.batch_size

C27_Witness ==
    /\ at = "loop"
    /\ ~args.sliding_batch
    /\ args.batch_size = 2
    /\ observed.epoch.count = 2
    /\ observed.reshuffles > 0
    /\ Cardinality(observed.epoch.seen) = 4
\* ---- epochs
\* an epoch of a run without sliding_batch has ended
EpochClosed ==
    /\ at \in {"loop", "done", "raised"}
    /\ ~args.sliding_batch
    /\ args.samples > args.batch_size
    /\ observed.closed # None

\* ceil(n / d)
CeilDiv(n, d) == (n + d - 1) \div d

\* C28 as stated: without sliding_batch every epoch visits every sample,
\* drawing ceil(N / batch_size) batches, and epoch_idx grows by one at each
\* reshuffle.
C28_Stated ==
    EpochClosed =>
        /\ observed.closed[1].count = CeilDiv(args.samples, args.batch_size)
        /\ observed.closed[1].seen = 0..(args.samples - 1)
        /\ epoch_idx = observed.reshuffles

\* C28: without sliding_batch and with N > batch_size, no epoch visits every
\* sample: each epoch draws floor((N - 1) / batch_size) batches, which is
\* ceil(N / batch_size) - 1, so that many times batch_size distinct ids are
\* used once each and between 1 and batch_size ids are left unused; and
\* epoch_idx grows by exactly one at each reshuffle.
C28_Epochs ==
    /\ (at \in {"loop", "done", "raised"}) =>
          /\ epoch_idx = observed.reshuffles
          /\ (~args.sliding_batch /\ args.samples > args.batch_size) =>
                observed.epoch.count <= (args.samples - 1) \div args.batch_size
    /\ EpochClosed =>
          LET closed == observed.closed[1]
              unused == args.samples - Cardinality(closed.seen)
          IN /\ closed.count = (args.samples - 1) \div args.batch_size
             /\ closed.count = CeilDiv(args.samples, args.batch_size) - 1
             /\ ~closed.overlap
             /\ Cardinality(closed.seen) = closed.count * args.batch_size
             /\ unused >= 1 /\ unused <= args.batch_size
             /\ (args.samples % args.batch_size = 0) => unused = args.batch_size

C28_Witness ==
    /\ EpochClosed
    /\ at = "loop"
    /\ args.samples = 3 /\ args.batch_size = 1
    /\ observed.closed[1].count = 2
    /\ Cardinality(observed.closed[1].seen) = 2
    /\ epoch_idx = 2 /\ observed.reshuffles = 2
\* ---- evaluation helpers
\* C29: after eval_ctx_rand, eval_latents_rand or eval_latents_ones ends,
\* on any exit (normal return, the model call raising, image writing
\* raising), the replaced cache tensor equals its value before the call and
\* the other cache and all other parameters are unmodified.
C29_Restored ==
    evaluation # None =>
        /\ model.data = evaluation[1].before.data
        /\ model.requires_grad = evaluation[1].before.requires_grad
\* ---- the hysteresis loop
\* bounds and jumps a call of weights_hysteresis_loop_zero is made with
HysteresisBounds == 1..3
HysteresisJumps == 1..6

Abs(v) == IF v < 0 THEN -v ELSE v

\* the parameters the hysteresis loop visits
Hysteretic == {n \in ParameterNames : ~Contains(n, "data_cache")}

\* C30: one call of weights_hysteresis_loop_zero(model, bound, jump) moves
\* each entry at most once: p with 0 < p < bound becomes p - jump, p with
\* -bound < p < 0 becomes p + jump, entries with p = 0 or |p| >= bound and
\* every entry of a parameter named "...data_cache..." are unchanged; so
\* with jump >= 2 * bound no moved entry ends with |p| < bound, and after an
\* optimizer step of a run with the hysteresis loop on no visited entry
\* lies strictly between 0 and bound in absolute value.
C30_Hysteresis ==
    /\ \A bound \in HysteresisBounds, jump \in HysteresisJumps :
          LET after == weights_hysteresis_loop_zero(model, bound, jump)
          IN /\ after.requires_grad = model.requires_grad
             /\ \A n \in ParameterNames \ Hysteretic : after.data[n] = model.data[n]
             /\ \A n \in Hysteretic :
                   /\ DOMAIN after.data[n] = DOMAIN model.data[n]
                   /\ \A k \in DOMAIN model.data[n] :
                         LET was == model.data[n][k]
                             now == after.data[n][k]
                         IN /\ (0 < was /\ was < bound) => now = was - jump
                            /\ (-bound < was /\ was < 0) => now = was + jump
                            /\ (was = 0 \/ Abs(was) >= bound) => now = was
                            /\ (jump >= 2 * bound /\ now # was) => Abs(now) >= bound
    /\ (args.weights_hysteresis_loop /\ optimizer.steps > 0
          /\ args.weights_hysteresis_loop_zero_jump >= 2 * args.weights_hysteresis_loop_zero_bound) =>
          \A n \in Hysteretic : \A k \in DOMAIN model.data[n] :
              model.data[n][k] = 0 \/ Abs(model.data[n][k]) >= args.weights_hysteresis_loop_zero_bound

C30_Witness ==
    /\ at = "loop"
    /\ args.weights_hysteresis_loop
    /\ observed.stepped
    /\ \E n \in Hysteretic : \E k \in DOMAIN model.data[n] :
          LET drawn == Draw(7 * optimizer.steps + Len(model.data[n]), k, -3, 3)
          IN /\ model.requires_grad[n]
             /\ drawn = 1
             /\ model.data[n][k] = 1 - args.weights_hysteresis_loop_zero_jump
    /\ \E n \in Hysteretic : \E k \in DOMAIN model.data[n] :
          /\ model.data[n][k] = 2
          /\ weights_hysteresis_loop_zero(model, 3, 3).data[n][k] = -1
====
